---- MODULE Spec2Model ----
(***************************************************************************)
(* State-machine model of the screen/audio recording and instant-replay    *)
(* pipeline (hooks useScreenRecorder and useAudioRecorder).                *)
(*                                                                         *)
(* The renderer runs on one cooperative event loop.  Every action below is *)
(* one task of that loop: a call of a hook function up to its first await, *)
(* the continuation of a suspended call after the awaited promise settles, *)
(* a setInterval callback, or a MediaRecorder event.  Time is counted in   *)
(* whole seconds: Second advances the clock and makes every armed interval *)
(* and every recording MediaRecorder (timeslice 1000 ms) due once.         *)
(***************************************************************************)
EXTENDS Integers, Sequences, FiniteSets, TLC

VARIABLES
  \* ---- useScreenRecorder refs ----
  statusRef,            \* 'idle' | 'recording' | 'buffering'
  mediaRecorderRef,     \* recorder id, 0 = null
  streamRef,            \* stream id, 0 = null
  chunksRef,            \* chunks of the in-progress session
  completedChunksRef,   \* chunks of the last completed rotation
  timerRef,             \* interval id of the elapsed timer, 0 = null
  rotationTimerRef,     \* interval id of the rotation timer, 0 = null
  elapsedRef,
  bufferElapsedRef,
  sourceIdRef,          \* 0 = null
  bufferLengthRef,
  optionRefs,           \* the refs that mirror the other options of the hook
  rawDesktopStreamRef,  \* raw desktop stream under the canvas pipeline, 0 = null
  micStreamRef,         \* microphone stream, 0 = null
  audioContextRef,      \* TRUE when an AudioContext mixes desktop and microphone
  canvasRef,            \* <<width, height>> of the output canvas, <<>> = null
  \* ---- browser objects ----
  recorders,            \* every MediaRecorder created so far
  liveStreams,          \* ids of capture streams whose tracks are not stopped
  nStreams,             \* number of streams acquired so far
  intervals,            \* armed setInterval timers
  nTimers,              \* number of intervals created so far
  clock,                \* whole seconds elapsed
  due,                  \* 1-second tasks that are due and have not run yet
  \* ---- suspended and finished async calls ----
  calls,
  \* ---- outputs ----
  saveCalls,            \* payloads handed to window.api.saveRecording
  onSaved,              \* onSaved callbacks fired (index of the payload)
  onError,              \* onError callbacks fired (message kind)
  consoleWarn,          \* console.warn messages written
  armedAtRelease,       \* hooks that released a stream while a timer of theirs was armed
  \* ---- main process ----
  files,                \* the files in the recordings folder
  app,                  \* the App component: settings state, refs and pending source lookups
  offscreenVideoRef,    \* the cropper whose video element is held, 0 = null
  animFrameRef,         \* the cropper whose frame-loop handle is held, 0 = none
  croppers,             \* the canvas croppers built so far: frame loop, video sink, raw source
  audioContexts,        \* the AudioContexts that are open
  stoppedBuffers,       \* what each accepted stopBuffering call stopped
  settingsPanel,        \* state of the Settings component and its calls of saveSettings
  dateNow,              \* Date.now() at the latest handler call
  savedPrompts,         \* the savedPrompts list of the store
  regionBoxVisible,     \* App: the region box is shown (the Crop button)
  regionSelector,       \* refs of the RegionSelector component
  trimmer,              \* state of the AudioTrimmer component
  ipcCalls,             \* invocations of the audio-file handlers of the main process
  disk,                 \* the files of the machine, by resolved path
  \* ---- useAudioRecorder ----
  audio,                \* its refs and the callbacks it has fired
  \* ---- bookkeeping of the environment ----
  nOps,                 \* hook functions invoked by the application so far
  rejected              \* invocations that returned at the guard

vars == <<statusRef, mediaRecorderRef, streamRef, chunksRef, completedChunksRef,
          timerRef, rotationTimerRef, elapsedRef, bufferElapsedRef, sourceIdRef,
          bufferLengthRef, optionRefs, rawDesktopStreamRef, micStreamRef,
          audioContextRef, canvasRef, consoleWarn, armedAtRelease, files, app, offscreenVideoRef, animFrameRef, croppers, audioContexts, stoppedBuffers, settingsPanel, dateNow, savedPrompts, regionBoxVisible, regionSelector, trimmer, ipcCalls, disk, recorders, liveStreams, nStreams, intervals, nTimers,
          clock, due, calls, saveCalls, onSaved, onError, audio, nOps, rejected>>

\* everything the hook and the browser own (all but the bookkeeping counters)
ctrl == <<statusRef, mediaRecorderRef, streamRef, chunksRef, completedChunksRef,
          timerRef, rotationTimerRef, elapsedRef, bufferElapsedRef, sourceIdRef,
          bufferLengthRef, optionRefs, rawDesktopStreamRef, micStreamRef,
          audioContextRef, canvasRef, consoleWarn, armedAtRelease, files, app, offscreenVideoRef, animFrameRef, croppers, audioContexts, stoppedBuffers, settingsPanel, dateNow, savedPrompts, regionBoxVisible, regionSelector, trimmer, ipcCalls, disk, recorders, liveStreams, nStreams, intervals, nTimers,
          clock, due, calls, saveCalls, onSaved, onError, audio>>

----------------------------------------------------------------------------
\* Bounds of the model

\* hook functions the application may invoke in one behaviour
MaxOps == 2
\* seconds simulated in one behaviour
MaxClock == 2
\* rotation period used by the interleaving model
BufferLength == 2
\* seconds simulated by the rotation scenario (two rotations of the longest period)
RotationClock == 241
\* seconds simulated by the replay scenario (the save may stay pending a while)
ReplayClock == 38
\* seconds simulated by the cap scenario
CapClock == 1801

\* Program constants
MAX_RECORDING_SECONDS == 1800
MAX_AUDIO_RECORDING_SECONDS == 1800
\* the default buffer length of the application
DefaultBufferLength == 30
\* the buffer lengths the settings offer
BufferLengths == {30, 60, 120}

SourceIds == {1}

\* the resolution presets and what they map to
Resolutions == {"720p", "1080p", "1440p"}
RESOLUTION_MAP ==
  [r \in Resolutions |->
     CASE r = "720p"  -> [maxWidth |-> 1280, maxHeight |-> 720]
       [] r = "1080p" -> [maxWidth |-> 1920, maxHeight |-> 1080]
       [] r = "1440p" -> [maxWidth |-> 2560, maxHeight |-> 1440]]
BITRATE_MAP ==
  [r \in Resolutions |->
     CASE r = "720p"  -> 10000000
       [] r = "1080p" -> 20000000
       [] r = "1440p" -> 50000000]

\* the options the application passes at mount, other than bufferLength; a
\* region is <<w, h>>, <<>> is null; an aspect ratio 'a:b' is <<a, b>>
DefaultOptions ==
  [systemAudioEnabledRef |-> FALSE, micEnabledRef |-> FALSE,
   recordingResolutionRef |-> "1080p", customAspectRatioRef |-> FALSE,
   aspectRatioPresetRef |-> <<16, 9>>, regionBoxEnabledRef |-> FALSE,
   regionBoundsRef |-> <<>>]
AudioModes == {"system", "system+mic", "mic"}

\* Numbers of the region box.  JavaScript numbers are modelled as exact
\* fractions <<numerator, denominator>> in lowest terms, denominator positive.
RECURSIVE GCD(_, _)
GCD(a, b) == IF b = 0 THEN a ELSE GCD(b, a % b)
Abs(n) == IF n < 0 THEN -n ELSE n
Frac(n, d) ==
  LET g == GCD(Abs(n), Abs(d))
  IN IF d < 0 THEN <<(-n) \div g, (-d) \div g>> ELSE <<n \div g, d \div g>>
Num(n) == <<n, 1>>
Plus(a, b) == Frac(a[1] * b[2] + b[1] * a[2], a[2] * b[2])
Minus(a, b) == Frac(a[1] * b[2] - b[1] * a[2], a[2] * b[2])
Times(a, b) == Frac(a[1] * b[1], a[2] * b[2])
Over(a, b) == Frac(a[1] * b[2], a[2] * b[1])
Less(a, b) == a[1] * b[2] < b[1] * a[2]
MathMax(a, b) == IF Less(a, b) THEN b ELSE a
MathMin(a, b) == IF Less(b, a) THEN b ELSE a

\* window.innerWidth and window.innerHeight of the overlay (the primary display)
InnerWidth == 1920
InnerHeight == 1080
\* the smallest side a resize leaves
minSize == 100
\* the toolbar of the region box; a ratio 'a:b' is <<a, b>> and 'Free' is <<>>
Free == <<>>
RATIO_PRESETS == {Free, <<16, 9>>, <<9, 16>>, <<4, 3>>, <<1, 1>>}
\* the presets of the settings panel
ASPECT_PRESETS == {<<16, 9>>, <<9, 16>>, <<1, 1>>, <<4, 5>>, <<4, 3>>}
Corners == {"top-left", "top-right", "bottom-left", "bottom-right"}
\* parseRatio
parseRatio(ratioStr) == IF ratioStr = Free THEN <<>> ELSE Frac(ratioStr[1], ratioStr[2])
\* the box RegionSelector starts with when no bounds were saved: half the
\* height of the screen, at most 0.8 of its width, centred
InitialBox(ratio) ==
  LET maxH == Times(Num(InnerHeight), Frac(1, 2))
      maxW == Times(Num(InnerWidth), Frac(8, 10))
      wide == Less(maxW, Times(maxH, ratio))
      boxW == IF wide THEN maxW ELSE Times(maxH, ratio)
      boxH == IF wide THEN Over(maxW, ratio) ELSE maxH
  IN [pos |-> [x |-> Over(Minus(Num(InnerWidth), boxW), Num(2)),
               y |-> Over(Minus(Num(InnerHeight), boxH), Num(2))],
      size |-> [w |-> boxW, h |-> boxH]]
\* RegionSelector once it is mounted with the default settings of the application
RegionSelectorInit ==
  [posRef |-> InitialBox(Frac(16, 9)).pos, sizeRef |-> InitialBox(Frac(16, 9)).size,
   isDraggingRef |-> FALSE, isResizingRef |-> FALSE,
   dragStartRef |-> [mouseX |-> Num(0), mouseY |-> Num(0), startX |-> Num(0), startY |-> Num(0)],
   resizeStartRef |-> [mouseX |-> Num(0), mouseY |-> Num(0), startX |-> Num(0),
                       startY |-> Num(0), startW |-> Num(0), startH |-> Num(0)],
   resizeCornerRef |-> "", ratioRef |-> Frac(16, 9), lockAspectRatioRef |-> FALSE,
   nMoves |-> 0]

\* The Settings component: its hotkeys when it is mounted (the defaults of the
\* store), no error, nothing saved yet
hotkeyKeys == {"screenshotHotkey", "snipHotkey", "toggleHotkey", "clipHotkey"}
DefaultHotkeys ==
  [screenshotHotkey |-> "Alt+S", snipHotkey |-> "Alt+Shift+S", toggleHotkey |-> "Alt+V",
   clipHotkey |-> "Alt+C"]
SettingsInit ==
  [settings |-> DefaultHotkeys, error |-> "", saveSettings |-> <<>>, changes |-> <<>>]

\* Paths.  A path is the sequence of its segments and a segment the sequence of
\* the pieces of its text, so that a prefix of the text is a prefix of pieces.
\* join(app.getPath('userData'), 'recordings', 'audio')
AudioPath == <<<<"userData">>, <<"recordings">>, <<"audio">>>>
join(dir, name) == Append(dir, name)
\* the file the operating system opens for a path: '..' steps out of a folder
RECURSIVE resolve(_)
resolve(p) ==
  IF p = <<>> THEN <<>>
  ELSE LET dir == resolve(SubSeq(p, 1, Len(p) - 1))
           last == p[Len(p)]
       IN IF last = <<"..">>
          THEN IF dir = <<>> THEN <<>> ELSE SubSeq(dir, 1, Len(dir) - 1)
          ELSE Append(dir, last)
\* the recording the trimmer lists, and files elsewhere on the machine
ListedFile == join(AudioPath, <<"a", ".mp3">>)
SiblingFile == <<<<"userData">>, <<"recordings">>, <<"audio", "-old">>, <<"b", ".mp3">>>>
ParentFile == <<<<"userData">>, <<"recordings">>, <<"audio">>, <<"..">>, <<"c", ".mp3">>>>
ElsewhereFile == <<<<"home">>, <<"d", ".mp3">>>>
Paths == {ListedFile, SiblingFile, ParentFile, ElsewhereFile}
InitialDisk == {[path |-> resolve(p), content |-> "mp3"] : p \in Paths}
\* the AudioTrimmer component when it is mounted
\* list-audio-files: the .mp3 files directly in the audio folder
ListAudioFiles(d) ==
  {f.path : f \in {g \in d : /\ Len(g.path) = Len(AudioPath) + 1
                            /\ SubSeq(g.path, 1, Len(AudioPath)) = AudioPath
                            /\ g.path[Len(g.path)][Len(g.path[Len(g.path)])] = ".mp3"}}
\* the AudioTrimmer component once it is mounted and has listed the files; the
\* toast is the message on show
TrimmerInit ==
  [files |-> ListAudioFiles(InitialDisk), selectedFile |-> <<>>, trimming |-> FALSE,
   toast |-> ""]

\* The App component at mount: useState(false) for the background-buffering
\* setting, bufferAutoStartedRef = useRef(false), no getPrimarySourceId()
\* pending, no click on the record button handled, no toast shown.
AppInit ==
  [bufferingEnabled |-> FALSE, bufferAutoStartedRef |-> FALSE, lookups |-> <<>>,
   clicks |-> <<>>, toasts |-> <<>>]

----------------------------------------------------------------------------
\* The whole state as one record, so that a handler's statements can be
\* applied one after the other as in the source.

St ==
  [statusRef |-> statusRef, mediaRecorderRef |-> mediaRecorderRef,
   streamRef |-> streamRef, chunksRef |-> chunksRef,
   completedChunksRef |-> completedChunksRef, timerRef |-> timerRef,
   rotationTimerRef |-> rotationTimerRef, elapsedRef |-> elapsedRef,
   bufferElapsedRef |-> bufferElapsedRef, sourceIdRef |-> sourceIdRef,
   bufferLengthRef |-> bufferLengthRef, optionRefs |-> optionRefs,
   rawDesktopStreamRef |-> rawDesktopStreamRef, micStreamRef |-> micStreamRef,
   audioContextRef |-> audioContextRef, canvasRef |-> canvasRef,
   consoleWarn |-> consoleWarn, armedAtRelease |-> armedAtRelease, files |-> files, app |-> app, offscreenVideoRef |-> offscreenVideoRef, animFrameRef |-> animFrameRef, croppers |-> croppers, audioContexts |-> audioContexts, stoppedBuffers |-> stoppedBuffers, settingsPanel |-> settingsPanel, dateNow |-> dateNow, savedPrompts |-> savedPrompts, regionBoxVisible |-> regionBoxVisible, regionSelector |-> regionSelector, trimmer |-> trimmer, ipcCalls |-> ipcCalls, disk |-> disk,
   recorders |-> recorders,
   liveStreams |-> liveStreams, nStreams |-> nStreams, intervals |-> intervals,
   nTimers |-> nTimers, clock |-> clock, due |-> due, calls |-> calls,
   saveCalls |-> saveCalls, onSaved |-> onSaved, onError |-> onError,
   audio |-> audio, nOps |-> nOps, rejected |-> rejected]

\* the next state is s (evaluated once, then assigned field by field)
Commit(s) ==
  \E v \in {s} :
    /\ statusRef' = v.statusRef
    /\ mediaRecorderRef' = v.mediaRecorderRef
    /\ streamRef' = v.streamRef
    /\ chunksRef' = v.chunksRef
    /\ completedChunksRef' = v.completedChunksRef
    /\ timerRef' = v.timerRef
    /\ rotationTimerRef' = v.rotationTimerRef
    /\ elapsedRef' = v.elapsedRef
    /\ bufferElapsedRef' = v.bufferElapsedRef
    /\ sourceIdRef' = v.sourceIdRef
    /\ bufferLengthRef' = v.bufferLengthRef
    /\ optionRefs' = v.optionRefs
    /\ rawDesktopStreamRef' = v.rawDesktopStreamRef
    /\ micStreamRef' = v.micStreamRef
    /\ audioContextRef' = v.audioContextRef
    /\ canvasRef' = v.canvasRef
    /\ consoleWarn' = v.consoleWarn
    /\ armedAtRelease' = v.armedAtRelease
    /\ files' = v.files
    /\ app' = v.app
    /\ offscreenVideoRef' = v.offscreenVideoRef
    /\ animFrameRef' = v.animFrameRef
    /\ croppers' = v.croppers
    /\ audioContexts' = v.audioContexts
    /\ stoppedBuffers' = v.stoppedBuffers
    /\ settingsPanel' = v.settingsPanel
    /\ dateNow' = v.dateNow
    /\ savedPrompts' = v.savedPrompts
    /\ regionBoxVisible' = v.regionBoxVisible
    /\ regionSelector' = v.regionSelector
    /\ trimmer' = v.trimmer
    /\ ipcCalls' = v.ipcCalls
    /\ disk' = v.disk
    /\ recorders' = v.recorders
    /\ liveStreams' = v.liveStreams
    /\ nStreams' = v.nStreams
    /\ intervals' = v.intervals
    /\ nTimers' = v.nTimers
    /\ clock' = v.clock
    /\ due' = v.due
    /\ calls' = v.calls
    /\ saveCalls' = v.saveCalls
    /\ onSaved' = v.onSaved
    /\ onError' = v.onError
    /\ audio' = v.audio
    /\ nOps' = v.nOps
    /\ rejected' = v.rejected

----------------------------------------------------------------------------
\* Browser primitives

\* recorder.onstop values
NoHandler == [kind |-> "none", call |-> 0]
Handler(kind, c) == [kind |-> kind, call |-> c]

\* a suspended call: op is the hook function, pc the await it is suspended at
Call(op, pc) ==
  [op |-> op, pc |-> pc, src |-> 0, desktop |-> 0, recorder |-> 0, stream |-> 0,
   clip |-> 0, used |-> FALSE, emptyAtCall |-> FALSE, mode |-> "none",
   request |-> <<>>, cropped |-> FALSE, out |-> <<>>, micAsked |-> FALSE, built |-> 0,
   region |-> <<>>]

NewCall(s, rec) == [s EXCEPT !.calls = Append(@, rec)]
NextCallId(s) == Len(s.calls) + 1

\* the call has returned (or thrown); its locals are dropped
Finish(s, c) == [s EXCEPT !.calls[c] = Call(s.calls[c].op, "done")]

\* clearInterval(id)
ClearInterval(s, id) ==
  [s EXCEPT !.intervals = {i \in @ : i.id # id},
            !.due = @ \ {<<"timer", id>>}]

\* setInterval(callback, 1000): the new interval's id
NewIntervalId(s) == s.nTimers + 1
SetInterval(s, kind, c) ==
  [s EXCEPT !.nTimers = @ + 1,
            !.intervals = @ \cup {[id |-> s.nTimers + 1, kind |-> kind, by |-> c]}]

\* MediaRecorder.stop(): a recording recorder becomes inactive at once and its
\* final dataavailable and stop events are queued; on an inactive recorder the
\* call does nothing.
RecorderStop(s, r) ==
  IF s.recorders[r].state = "recording"
  THEN [s EXCEPT !.recorders[r].state = "inactive",
                 !.recorders[r].stopQueued = TRUE,
                 !.recorders[r].stoppedAt = s.clock,
                 !.due = @ \ {<<"data", r>>}]
  ELSE s

\* recorder.onstop = h
SetOnStop(s, r, h) == [s EXCEPT !.recorders[r].onstop = h]

\* track.stop() on every track of the given streams: they are no longer live,
\* and a MediaRecorder whose tracks have all ended stops itself.
StopAllTracks(s, streams) ==
  LET ended == {r \in DOMAIN s.recorders :
                  s.recorders[r].stream \in streams /\ s.recorders[r].state = "recording"}
  IN [s EXCEPT !.liveStreams = @ \ streams,
               !.recorders = [r \in DOMAIN s.recorders |->
                                IF r \in ended
                                THEN [s.recorders[r] EXCEPT !.state = "inactive",
                                                           !.stopQueued = TRUE,
                                                           !.stoppedAt = s.clock]
                                ELSE s.recorders[r]],
               !.due = @ \ {<<"data", r>> : r \in ended}]

\* stream.getTracks().forEach(track => track.stop())
StopTracks(s, stream) == StopAllTracks(s, {stream})

----------------------------------------------------------------------------
\* Helpers of useScreenRecorder

\* releaseStream: the canvas, the raw desktop stream, the microphone, the
\* AudioContext and the recording stream, whichever are held.  A teardown that
\* finds a timer of the hook still armed is recorded.
releaseStream(s) ==
  LET held == {s.rawDesktopStreamRef, s.micStreamRef, s.streamRef} \ {0}
  IN [StopAllTracks(s, held) EXCEPT
        !.croppers = [k \in DOMAIN @ |->
                        [@[k] EXCEPT !.loop = @ /\ k # s.animFrameRef,
                                     !.video = @ /\ k # s.offscreenVideoRef]],
        !.animFrameRef = 0,
        !.offscreenVideoRef = 0,
        !.canvasRef = <<>>,
        !.rawDesktopStreamRef = 0,
        !.micStreamRef = 0,
        !.audioContextRef = FALSE,
        !.audioContexts = IF s.audioContextRef THEN @ - 1 ELSE @,
        !.streamRef = 0,
        !.armedAtRelease = IF held # {} /\ (s.timerRef # 0 \/ s.rotationTimerRef # 0)
                           THEN @ \cup {"screen"}
                           ELSE @]

clearTimer(s) ==
  IF s.timerRef # 0
  THEN [ClearInterval(s, s.timerRef) EXCEPT !.timerRef = 0]
  ELSE s

clearRotationTimer(s) ==
  IF s.rotationTimerRef # 0
  THEN [ClearInterval(s, s.rotationTimerRef) EXCEPT !.rotationTimerRef = 0]
  ELSE s

\* rotationTimerRef.current = setInterval(<rotation tick>, 1000)
armRotationTimer(s, c) ==
  [SetInterval(s, "rotation", c) EXCEPT !.rotationTimerRef = NewIntervalId(s)]

\* timerRef.current = setInterval(<elapsed tick>, 1000)
armElapsedTimer(s, c) ==
  [SetInterval(s, "elapsed", c) EXCEPT !.timerRef = NewIntervalId(s)]

\* new MediaRecorder(stream) ... recorder.start(1000).  start() throws when the
\* stream has no live track; StartThrows tells the caller.
StartThrows(s, stream) == stream \notin s.liveStreams

NewRecorder(s, stream, h, c) ==
  [stream |-> stream,
   state |-> IF StartThrows(s, stream) THEN "inactive" ELSE "recording",
   onstop |-> h, stopQueued |-> FALSE,
   startedAt |-> s.clock,
   stoppedAt |-> IF StartThrows(s, stream) THEN s.clock ELSE 0 - 1,
   n |-> 0, by |-> c, sink |-> "screen",
   bitrate |-> IF s.optionRefs.recordingResolutionRef \in DOMAIN BITRATE_MAP
               THEN BITRATE_MAP[s.optionRefs.recordingResolutionRef]
               ELSE 8000000]

createAndStartRecorder(s, stream, c) ==
  [s EXCEPT !.chunksRef = <<>>,
            !.recorders = Append(@, NewRecorder(s, stream, NoHandler, c)),
            !.mediaRecorderRef = Len(s.recorders) + 1]

\* variant: the rotation timer is re-armed as soon as the clip is handed over
saveChunksStartAndResume(s, chunks, prefix, c) ==
  armRotationTimer([s EXCEPT !.saveCalls = Append(@, [prefix |-> prefix, chunks |-> chunks,
                                                       by |-> c, at |-> s.clock])], c)
\* saveChunks(chunks, prefix): an empty list reports an error at once; otherwise
\* the payload is handed to window.api.saveRecording and call c waits for it.
saveChunksStart(s, chunks, prefix, c) ==
  [s EXCEPT !.saveCalls = Append(@, [prefix |-> prefix, chunks |-> chunks, by |-> c,
                                      at |-> s.clock])]

\* variant: the preset decides the capture size also when the region box is on
acquireStreamConstraintsPreset(o) ==
  LET res == IF o.recordingResolutionRef \in DOMAIN RESOLUTION_MAP
             THEN RESOLUTION_MAP[o.recordingResolutionRef]
             ELSE RESOLUTION_MAP["1080p"]
  IN [audio |-> o.systemAudioEnabledRef, maxWidth |-> res.maxWidth,
      maxHeight |-> res.maxHeight, maxFrameRate |-> 60]
\* the constraints acquireStream passes to getUserMedia
acquireStreamConstraints(o) ==
  LET res == IF o.regionBoxEnabledRef
             THEN [maxWidth |-> 2560, maxHeight |-> 1440]
             ELSE IF o.recordingResolutionRef \in DOMAIN RESOLUTION_MAP
                  THEN RESOLUTION_MAP[o.recordingResolutionRef]
                  ELSE RESOLUTION_MAP["1080p"]
  IN [audio |-> o.systemAudioEnabledRef, maxWidth |-> res.maxWidth,
      maxHeight |-> res.maxHeight, maxFrameRate |-> 60]

\* call c calls acquireStream and waits for getUserMedia
acquireStream(s, c) ==
  [s EXCEPT !.calls[c].pc = "acquire",
            !.calls[c].request = <<acquireStreamConstraints(s.optionRefs)>>]

\* Math.round(n / d) for positive integers n, d
MathRound(n, d) == (2 * n + d) \div (2 * d)

getOutputDimensions(resolution, aspectRatio) ==
  LET shortSide == CASE resolution = "720p"  -> 720
                     [] resolution = "1080p" -> 1080
                     [] resolution = "1440p" -> 1440
                     [] OTHER                -> 1080
      aw == aspectRatio[1]
      ah == aspectRatio[2]
  IN IF aw >= ah
     THEN <<MathRound(shortSide * aw, ah), shortSide>>
     ELSE <<shortSide, MathRound(shortSide * ah, aw)>>

\* buildStream: the canvas pipeline is used when the region box is enabled and
\* a region is set
buildStreamCropped(o) == o.regionBoxEnabledRef /\ o.regionBoundsRef # <<>>

\* variant: the region is rounded down to even
buildStreamOutputFloor(o) ==
  IF o.customAspectRatioRef
  THEN getOutputDimensions(o.recordingResolutionRef, o.aspectRatioPresetRef)
  ELSE <<(o.regionBoundsRef[1] \div 2) * 2, (o.regionBoundsRef[2] \div 2) * 2>>
\* buildStream: the output size <<outW, outH>> of the canvas pipeline
buildStreamOutput(o) ==
  IF o.customAspectRatioRef
  THEN getOutputDimensions(o.recordingResolutionRef, o.aspectRatioPresetRef)
  ELSE <<MathRound(o.regionBoundsRef[1], 2) * 2, MathRound(o.regionBoundsRef[2], 2) * 2>>

----------------------------------------------------------------------------
\* useScreenRecorder: the exported functions up to their first await

Invoked(s) == [s EXCEPT !.nOps = @ + 1]
\* the guard at the top of a function returned: nothing else happens
Rejected(s) == [s EXCEPT !.nOps = @ + 1, !.rejected = @ + 1]

startBufferingLegal == statusRef = "idle"

\* startBuffering(srcId) called in state s, up to its first await
startBuffering(s, srcId) ==
  IF s.statusRef # "idle"
  THEN Rejected(s)
  ELSE \* await acquireStream(srcId)
       acquireStream(NewCall(Invoked(s),
                             [Call("startBuffering", "acquire") EXCEPT !.src = srcId]),
                     NextCallId(s))

StartBuffering(srcId) == Commit(startBuffering(St, srcId))

startManualRecordingLegal == statusRef = "idle"

\* startManualRecording(srcId) called in state s, up to its first await
startManualRecording(s, srcId) ==
  IF s.statusRef # "idle"
  THEN Rejected(s)
  ELSE acquireStream(NewCall(Invoked(s),
                             [Call("startManualRecording", "acquire") EXCEPT
                                !.src = srcId]),
                     NextCallId(s))

StartManualRecording(srcId) == Commit(startManualRecording(St, srcId))

stopManualRecordingLegal == statusRef = "recording" /\ mediaRecorderRef # 0

\* stopManualRecording() called in state s
stopManualRecording(s) ==
  IF ~(s.statusRef = "recording" /\ s.mediaRecorderRef # 0)
  THEN Rejected(s)
  ELSE RecorderStop(Invoked(s), s.mediaRecorderRef)

StopManualRecording == Commit(stopManualRecording(St))

stopBufferingLegal == statusRef = "buffering" /\ mediaRecorderRef # 0

\* the buffer as a stopBuffering call finds it: the recorder it stops, the
\* chunks the two lists hold, and how much has been saved and reported so far
StoppedBuffer(s) ==
  [recorder |-> s.mediaRecorderRef,
   held     |-> {s.chunksRef[i] : i \in DOMAIN s.chunksRef} \cup
                {s.completedChunksRef[i] : i \in DOMAIN s.completedChunksRef},
   saves    |-> Len(s.saveCalls)]

\* stopBuffering() called in state s
stopBuffering(s) ==
  IF ~(s.statusRef = "buffering" /\ s.mediaRecorderRef # 0)
  THEN Rejected(s)
  ELSE LET s1 == clearRotationTimer(Invoked(s))
           s2 == SetOnStop(s1, s.mediaRecorderRef, Handler("stopBuffering", 0))
           s3 == RecorderStop(s2, s.mediaRecorderRef)
       IN [s3 EXCEPT !.stoppedBuffers = @ \cup {StoppedBuffer(s)}]

StopBuffering == Commit(stopBuffering(St))

restartBufferingLegal == statusRef = "buffering" /\ mediaRecorderRef # 0

restartBuffering(s) ==
  IF ~(s.statusRef = "buffering" /\ s.mediaRecorderRef # 0) \/ s.sourceIdRef = 0
  THEN Rejected(s)
  ELSE LET c  == NextCallId(s)
           s1 == clearRotationTimer(Invoked(s))
           s2 == NewCall(s1, [Call("restartBuffering", "stop") EXCEPT
                                !.src = s.sourceIdRef, !.recorder = s.mediaRecorderRef])
           s3 == SetOnStop(s2, s.mediaRecorderRef, Handler("restart", c))
       IN RecorderStop(s3, s.mediaRecorderRef)

RestartBuffering == Commit(restartBuffering(St))

\* variant: the guard without the status test
saveClipLegalAnyStatus == mediaRecorderRef # 0
saveClipLegal == statusRef = "buffering" /\ mediaRecorderRef # 0

\* the locals of a saveClip call
saveClipLocals(s) ==
  [Call("saveClip", "stop") EXCEPT
     !.src = s.sourceIdRef, !.recorder = s.mediaRecorderRef, !.stream = s.streamRef,
     !.emptyAtCall = (s.chunksRef = <<>> /\ s.completedChunksRef = <<>>)]

\* variant: the completed chunks are saved but not cleared
saveClipCompletedKeeps(s, c) ==
  LET s1 == saveChunksStart(s, s.completedChunksRef, "clip", c)
  IN NewCall(s1, [saveClipLocals(s) EXCEPT !.pc = "save", !.used = TRUE,
                                           !.clip = Len(s1.saveCalls)])
\* saveClip with a completed rotation: the clip is the completed chunks, which
\* are handed to saveChunks
saveClipCompleted(s, c) ==
  LET s1 == [s EXCEPT !.completedChunksRef = <<>>]
      s2 == saveChunksStart(s1, s.completedChunksRef, "clip", c)
  IN NewCall(s2, [saveClipLocals(s) EXCEPT !.pc = "save", !.used = TRUE,
                                           !.clip = Len(s2.saveCalls)])

\* saveClip without a completed rotation: the recorder is stopped and the call
\* waits for its stop event
saveClipPartial(s, c) ==
  LET s1 == NewCall(s, saveClipLocals(s))
      s2 == SetOnStop(s1, s.mediaRecorderRef, Handler("resolve", c))
  IN RecorderStop(s2, s.mediaRecorderRef)

\* saveClip up to its first await: the stop of the recorder when there is no
\* completed rotation, the save of the clip when there is one.
SaveClip ==
  IF ~saveClipLegal
  THEN Commit(Rejected(St))
  ELSE LET c  == NextCallId(St)
           s1 == clearRotationTimer(Invoked(St))
       IN IF Len(completedChunksRef) > 0
          THEN Commit(saveClipCompleted(s1, c))
          ELSE Commit(saveClipPartial(s1, c))

----------------------------------------------------------------------------
\* rotateBuffer, called by the rotation tick

\* variant: the new recorder is started without waiting for the stop event
rotateBufferEager(s) ==
  IF s.mediaRecorderRef = 0 \/ s.streamRef = 0 \/ s.statusRef # "buffering"
  THEN s
  ELSE LET c  == NextCallId(s)
           s1 == NewCall(s, Call("rotateBuffer", "done"))
           s2 == RecorderStop(s1, s.mediaRecorderRef)
           s3 == [s2 EXCEPT !.completedChunksRef = s.chunksRef,
                            !.bufferElapsedRef = 0]
       IN createAndStartRecorder(s3, s.streamRef, c)
rotateBuffer(s) ==
  IF s.mediaRecorderRef = 0 \/ s.streamRef = 0 \/ s.statusRef # "buffering"
  THEN s
  ELSE LET c  == NextCallId(s)
           s1 == NewCall(s, [Call("rotateBuffer", "stop") EXCEPT
                               !.recorder = s.mediaRecorderRef, !.stream = s.streamRef])
           s2 == SetOnStop(s1, s.mediaRecorderRef, Handler("resolve", c))
       IN RecorderStop(s2, s.mediaRecorderRef)

\* rotateBuffer after its recorder's stop event
rotateBufferResume(s, c) ==
  LET s1 == [s EXCEPT !.completedChunksRef = s.chunksRef,
                      !.chunksRef = <<>>,
                      !.bufferElapsedRef = 0]
  IN Finish(createAndStartRecorder(s1, s.calls[c].stream, c), c)

\* variant: the rotation is triggered one tick late
rotationTickLate(s) ==
  LET s1 == [s EXCEPT !.bufferElapsedRef = @ + 1]
  IN IF s1.bufferElapsedRef > s1.bufferLengthRef THEN rotateBuffer(s1) ELSE s1
\* the callback of the rotation interval
rotationTick(s) ==
  LET s1 == [s EXCEPT !.bufferElapsedRef = @ + 1]
  IN IF s1.bufferElapsedRef >= s1.bufferLengthRef THEN rotateBuffer(s1) ELSE s1

\* variant: the cap is taken from the buffer length
elapsedTickBufferCap(s) ==
  LET s1 == [s EXCEPT !.elapsedRef = @ + 1]
  IN IF s1.elapsedRef >= s1.bufferLengthRef /\ s1.mediaRecorderRef # 0
     THEN RecorderStop(s1, s1.mediaRecorderRef)
     ELSE s1
\* the callback of the elapsed interval of a manual recording
elapsedTick(s) ==
  LET s1 == [s EXCEPT !.elapsedRef = @ + 1]
  IN IF s1.elapsedRef >= MAX_RECORDING_SECONDS /\ s1.mediaRecorderRef # 0
     THEN RecorderStop(s1, s1.mediaRecorderRef)
     ELSE s1

----------------------------------------------------------------------------
\* Continuations after acquireStream / buildStream

Error(s, msg) == [s EXCEPT !.onError = Append(@, msg)]

\* getUserMedia resolved: a new live capture stream
\* and buildStream up to its first await: the microphone on the plain path,
\* the off-screen video (with the raw desktop stream remembered) on the canvas
\* path
Acquired(s, c) ==
  LET o  == s.optionRefs
      s1 == [s EXCEPT !.nStreams = @ + 1,
                      !.liveStreams = @ \cup {s.nStreams + 1},
                      !.calls[c].desktop = s.nStreams + 1,
                      !.calls[c].pc = "build"]
  IN IF buildStreamCropped(o)
     THEN [s1 EXCEPT !.calls[c].cropped = TRUE,
                     !.calls[c].out = buildStreamOutput(o),
                     !.calls[c].region = o.regionBoundsRef,
                     !.rawDesktopStreamRef = s1.nStreams]
     ELSE [s1 EXCEPT !.calls[c].micAsked = o.micEnabledRef]

\* whether the build of call c asks for the microphone (acquireMicStream reads
\* micEnabledRef when it is called)
MicAsked(s, c) ==
  IF s.calls[c].cropped THEN s.optionRefs.micEnabledRef ELSE s.calls[c].micAsked

\* the outcomes of acquireMicStream: a stream (TRUE) or null (FALSE)
MicChoices(s, c) == IF MicAsked(s, c) THEN BOOLEAN ELSE {FALSE}

\* variant: the frame loop draws the region it was built with
drawFrameSnapshot(s, region) == region
\* drawFrame: the bounds a frame is drawn with, b = regionBoundsRef.current || region
drawFrame(s, region) ==
  IF s.optionRefs.regionBoundsRef # <<>> THEN s.optionRefs.regionBoundsRef ELSE region

\* buildCroppedStream for call c: the video element plays the raw desktop
\* stream, the frame loop is started by its first drawFrame(); frames counts
\* the frames drawn, modulo 2
NewCropper(s, c) ==
  [raw |-> s.calls[c].desktop, region |-> s.calls[c].region,
   drawn |-> drawFrame(s, s.calls[c].region), frames |-> 1,
   loop |-> TRUE, video |-> TRUE]

\* variant: a microphone that cannot be acquired is reported through onError
buildStreamResolvedReports(s, c, micOk) ==
  LET call     == s.calls[c]
      canvasId == s.nStreams + 1
      micId    == IF call.cropped THEN s.nStreams + 2 ELSE s.nStreams + 1
      new      == (IF call.cropped THEN {canvasId} ELSE {}) \cup
                  (IF micOk THEN {micId} ELSE {})
  IN [s EXCEPT !.canvasRef = IF call.cropped THEN call.out ELSE @,
               !.croppers = IF call.cropped THEN Append(@, NewCropper(s, c)) ELSE @,
               !.animFrameRef = IF call.cropped THEN Len(s.croppers) + 1 ELSE @,
               !.offscreenVideoRef = IF call.cropped THEN Len(s.croppers) + 1 ELSE @,
               !.nStreams = @ + Cardinality(new),
               !.liveStreams = @ \cup new,
               !.micStreamRef = IF micOk THEN micId ELSE 0,
               !.consoleWarn = IF ~micOk /\ MicAsked(s, c) THEN @ + 1 ELSE @,
               !.onError = IF ~micOk /\ MicAsked(s, c)
                           THEN Append(@, "Failed to acquire mic stream")
                           ELSE @,
               !.audioContextRef = IF call.request[1].audio /\ micOk THEN TRUE ELSE @,
               !.audioContexts = IF call.request[1].audio /\ micOk THEN @ + 1 ELSE @,
               !.calls[c].built = IF call.cropped THEN canvasId ELSE call.desktop]
\* buildStream resolves: the canvas and its stream on the canvas path, the
\* microphone stream when it was acquired (a failure is only logged), and an
\* AudioContext when desktop audio and microphone are mixed.  The stream it
\* returns carries the desktop's own video track on the plain path.
buildStreamResolved(s, c, micOk) ==
  LET call     == s.calls[c]
      canvasId == s.nStreams + 1
      micId    == IF call.cropped THEN s.nStreams + 2 ELSE s.nStreams + 1
      new      == (IF call.cropped THEN {canvasId} ELSE {}) \cup
                  (IF micOk THEN {micId} ELSE {})
  IN [s EXCEPT !.canvasRef = IF call.cropped THEN call.out ELSE @,
               !.croppers = IF call.cropped THEN Append(@, NewCropper(s, c)) ELSE @,
               !.animFrameRef = IF call.cropped THEN Len(s.croppers) + 1 ELSE @,
               !.offscreenVideoRef = IF call.cropped THEN Len(s.croppers) + 1 ELSE @,
               !.nStreams = @ + Cardinality(new),
               !.liveStreams = @ \cup new,
               !.micStreamRef = IF micOk THEN micId ELSE 0,
               !.consoleWarn = IF ~micOk /\ MicAsked(s, c) THEN @ + 1 ELSE @,
               !.audioContextRef = IF call.request[1].audio /\ micOk THEN TRUE ELSE @,
               !.audioContexts = IF call.request[1].audio /\ micOk THEN @ + 1 ELSE @,
               !.calls[c].built = IF call.cropped THEN canvasId ELSE call.desktop]

\* buildStream can throw where the browser can: video.play() rejects on the
\* canvas path; on the plain path new AudioContext() throws, which is reached
\* with desktop audio and an acquired microphone
buildStreamCanThrow(s, c) ==
  s.calls[c].cropped \/ (s.calls[c].request[1].audio /\ s.calls[c].micAsked)

buildStreamRejected(s, c) ==
  IF s.calls[c].cropped
  THEN s
  ELSE [s EXCEPT !.nStreams = @ + 1,
                 !.liveStreams = @ \cup {s.nStreams + 1},
                 !.micStreamRef = s.nStreams + 1]

startBufferingCatch(s, c) ==
  Finish(releaseStream(Error(s, "Failed to start buffering")), c)

startBufferingBuilt(s, c) ==
  LET stream == s.calls[c].built
      s1 == [s EXCEPT !.streamRef = stream,
                      !.sourceIdRef = s.calls[c].src,
                      !.completedChunksRef = <<>>,
                      !.bufferElapsedRef = 0]
      s2 == createAndStartRecorder(s1, stream, c)
      s3 == [s2 EXCEPT !.statusRef = "buffering"]
  IN Finish(armRotationTimer(s3, c), c)

startManualRecordingCatch(s, c) ==
  Finish(releaseStream(Error(s, "Failed to start recording")), c)

startManualRecordingBuilt(s, c) ==
  LET stream == s.calls[c].built
      s1 == [s EXCEPT !.streamRef = stream,
                      !.sourceIdRef = s.calls[c].src,
                      !.chunksRef = <<>>,
                      !.recorders = Append(@, NewRecorder(s, stream, Handler("manual", 0), c)),
                      !.mediaRecorderRef = Len(s.recorders) + 1]
      s2 == [s1 EXCEPT !.statusRef = "recording", !.elapsedRef = 0]
  IN Finish(armElapsedTimer(s2, c), c)

restartBufferingCatch(s, c) ==
  Finish([Error(s, "Failed to restart buffer") EXCEPT !.statusRef = "idle"], c)

restartBufferingBuilt(s, c) ==
  LET stream == s.calls[c].built
      s1 == [s EXCEPT !.streamRef = stream,
                      !.sourceIdRef = s.calls[c].src,
                      !.completedChunksRef = <<>>,
                      !.bufferElapsedRef = 0]
      s2 == createAndStartRecorder(s1, stream, c)
      s3 == [s2 EXCEPT !.statusRef = "buffering"]
  IN Finish(armRotationTimer(clearRotationTimer(s3), c), c)

saveClipCatch(s, c) ==
  Finish([releaseStream(Error(s, "Failed to restart buffer")) EXCEPT
            !.statusRef = "idle"], c)

\* variant: the rotation timer is not re-armed
saveClipBuiltNoTimer(s, c) ==
  LET stream == s.calls[c].built
      s1 == [s EXCEPT !.streamRef = stream]
  IN Finish(createAndStartRecorder(s1, stream, c), c)
saveClipBuilt(s, c) ==
  LET stream == s.calls[c].built
      s1 == [s EXCEPT !.streamRef = stream]
      s2 == createAndStartRecorder(s1, stream, c)
  IN Finish(armRotationTimer(s2, c), c)

\* navigator.mediaDevices.getUserMedia of acquireStream settles for call c
AcquireDone(c, ok) ==
  /\ c \in DOMAIN calls
  /\ calls[c].pc = "acquire"
  /\ LET op == calls[c].op IN
     IF ok THEN Commit(Acquired(St, c))
     ELSE CASE op = "startBuffering"       -> Commit(startBufferingCatch(St, c))
            [] op = "startManualRecording" -> Commit(startManualRecordingCatch(St, c))
            [] op = "restartBuffering"     -> Commit(restartBufferingCatch(St, c))
            [] op = "saveClip"             -> Commit(saveClipCatch(St, c))

\* buildStream resolves for call c (its awaits: the microphone, the off-screen video)
BuildDone(c) ==
  /\ c \in DOMAIN calls
  /\ calls[c].pc = "build"
  /\ \E micOk \in MicChoices(St, c) :
       LET op == calls[c].op
           s1 == buildStreamResolved(St, c, micOk)
       IN CASE op = "startBuffering"       -> Commit(startBufferingBuilt(s1, c))
            [] op = "startManualRecording" -> Commit(startManualRecordingBuilt(s1, c))
            [] op = "restartBuffering"     -> Commit(restartBufferingBuilt(s1, c))
            [] op = "saveClip"             -> Commit(saveClipBuilt(s1, c))

\* buildStream rejects for call c
BuildFailed(c) ==
  /\ c \in DOMAIN calls
  /\ calls[c].pc = "build"
  /\ buildStreamCanThrow(St, c)
  /\ LET op == calls[c].op
         s1 == buildStreamRejected(St, c)
     IN CASE op = "startBuffering"       -> Commit(startBufferingCatch(s1, c))
          [] op = "startManualRecording" -> Commit(startManualRecordingCatch(s1, c))
          [] op = "restartBuffering"     -> Commit(restartBufferingCatch(s1, c))
          [] op = "saveClip"             -> Commit(saveClipCatch(s1, c))

----------------------------------------------------------------------------
\* Continuations after the recorder's stop event and after the clip save

\* recorder.onstop of startManualRecording
manualOnStop(s) ==
  LET chunks == s.chunksRef
      s1 == [s EXCEPT !.chunksRef = <<>>]
      \* saveChunks(chunks, 'recording', durationMs), not awaited
      s2 == IF Len(chunks) = 0
            THEN Error(s1, "No data to save")
            ELSE LET c  == NextCallId(s1)
                     s3 == saveChunksStart(s1, chunks, "recording", c)
                 IN NewCall(s3, [Call("saveChunks", "save") EXCEPT
                                   !.clip = Len(s3.saveCalls)])
      s4 == clearTimer(releaseStream(s2))
  IN [s4 EXCEPT !.statusRef = "idle", !.elapsedRef = 0]

\* recorder.onstop of stopBuffering
stopBufferingOnStop(s) ==
  LET s1 == [s EXCEPT !.chunksRef = <<>>, !.completedChunksRef = <<>>]
  IN [releaseStream(s1) EXCEPT !.statusRef = "idle"]

\* variant: the old stream is kept across the restart
restartBufferingOnStopKeepsStream(s, c) ==
  [s EXCEPT !.chunksRef = <<>>, !.completedChunksRef = <<>>,
            !.statusRef = "idle", !.calls[c].pc = "pause"]
\* recorder.onstop of restartBuffering, then the function up to the 200 ms pause
restartBufferingOnStop(s, c) ==
  LET s1 == [s EXCEPT !.chunksRef = <<>>, !.completedChunksRef = <<>>]
      s2 == releaseStream(s1)
  IN [s2 EXCEPT !.statusRef = "idle", !.calls[c].pc = "pause"]

\* variant: the clip is saved without the emptiness test
saveClipStoppedNoCheck(s, c) ==
  LET s1 == [s EXCEPT !.chunksRef = <<>>]
      s2 == saveChunksStart(s1, s.chunksRef, "clip", c)
  IN [s2 EXCEPT !.calls[c].pc = "save", !.calls[c].clip = Len(s2.saveCalls)]
\* variant: the empty path starts a recorder and leaves the rotation timer off
saveClipStoppedNoTimer(s, c) ==
  LET clipChunks == s.chunksRef
      stream     == s.calls[c].stream
      s1 == [s EXCEPT !.chunksRef = <<>>]
  IN IF Len(clipChunks) = 0
     THEN Finish(createAndStartRecorder(
                   [Error(s1, "Buffer is empty, nothing to clip") EXCEPT
                      !.completedChunksRef = <<>>, !.bufferElapsedRef = 0], stream, c), c)
     ELSE LET s2 == saveChunksStart(s1, clipChunks, "clip", c)
          IN [s2 EXCEPT !.calls[c].pc = "save", !.calls[c].clip = Len(s2.saveCalls)]
\* saveClip after the stop event of the recorder it stopped
saveClipStopped(s, c) ==
  LET clipChunks == s.chunksRef
      stream     == s.calls[c].stream
      s1 == [s EXCEPT !.chunksRef = <<>>]
  IN IF Len(clipChunks) = 0
     THEN LET s2 == Error(s1, "Buffer is empty, nothing to clip")
          IN IF stream # 0 /\ s.calls[c].src # 0
             THEN LET s3 == [s2 EXCEPT !.completedChunksRef = <<>>,
                                       !.bufferElapsedRef = 0]
                      s4 == createAndStartRecorder(s3, stream, c)
                  IN IF StartThrows(s3, stream)
                     THEN Finish(s4, c)
                     ELSE Finish(armRotationTimer(s4, c), c)
             ELSE Finish(s2, c)
     ELSE \* await saveChunks(clipChunks, 'clip', clipDurationMs)
          LET s2 == saveChunksStart(s1, clipChunks, "clip", c)
          IN [s2 EXCEPT !.calls[c].pc = "save", !.calls[c].clip = Len(s2.saveCalls)]

\* variant: the rotation counter restarts from 0 on the completed path
saveClipResumeZero(s, c) ==
  IF s.calls[c].src # 0 /\ s.calls[c].stream # 0
  THEN IF s.mediaRecorderRef # 0 /\ s.recorders[s.mediaRecorderRef].state = "recording"
       THEN LET s1 == [s EXCEPT !.completedChunksRef = <<>>,
                                !.bufferElapsedRef = 0]
            IN Finish(armRotationTimer(s1, c), c)
       ELSE LET s1 == [s EXCEPT !.completedChunksRef = <<>>,
                                !.bufferElapsedRef = 0]
            IN acquireStream(releaseStream(s1), c)
  ELSE Finish([releaseStream(s) EXCEPT !.statusRef = "idle"], c)
\* saveClip after saveChunks has returned
saveClipResume(s, c) ==
  IF s.calls[c].src # 0 /\ s.calls[c].stream # 0
  THEN IF s.mediaRecorderRef # 0 /\ s.recorders[s.mediaRecorderRef].state = "recording"
       THEN LET s1 == [s EXCEPT !.completedChunksRef = <<>>,
                                !.bufferElapsedRef = Len(s.chunksRef)]
            IN Finish(armRotationTimer(s1, c), c)
       ELSE LET s1 == [s EXCEPT !.completedChunksRef = <<>>,
                                !.bufferElapsedRef = 0]
            IN \* await acquireStream(savedSourceId)
               acquireStream(releaseStream(s1), c)
  ELSE Finish([releaseStream(s) EXCEPT !.statusRef = "idle"], c)

----------------------------------------------------------------------------
\* useAudioRecorder

AudioInit ==
  [isRecordingRef |-> FALSE, elapsedRef |-> 0, timerRef |-> 0, mediaRecorderRef |-> 0,
   streamRef |-> 0, desktopStreamRef |-> 0, micStreamRef |-> 0,
   audioContextRef |-> FALSE, chunksRef |-> <<>>,
   saveCalls |-> <<>>, onSaved |-> <<>>, onError |-> <<>>]

AudioError(s, msg) == [s EXCEPT !.audio.onError = Append(@, msg)]

releaseStreams(s) ==
  LET held == {s.audio.micStreamRef, s.audio.desktopStreamRef, s.audio.streamRef} \ {0}
  IN [StopAllTracks(s, held) EXCEPT
        !.audio.micStreamRef = 0,
        !.audio.desktopStreamRef = 0,
        !.audio.audioContextRef = FALSE,
        !.audio.streamRef = 0,
        !.armedAtRelease = IF held # {} /\ s.audio.timerRef # 0
                           THEN @ \cup {"audio"}
                           ELSE @]

audioClearTimer(s) ==
  IF s.audio.timerRef # 0
  THEN [ClearInterval(s, s.audio.timerRef) EXCEPT !.audio.timerRef = 0]
  ELSE s

\* startRecording up to its first await
StartRecording(mode) ==
  IF audio.isRecordingRef
  THEN Commit(Rejected(St))
  ELSE Commit(NewCall(Invoked(St),
                      [Call("startRecording",
                            IF mode = "mic" THEN "acquireMic" ELSE "acquireSystem")
                         EXCEPT !.mode = mode]))

\* the callback of the elapsed interval of an audio recording
audioElapsedTick(s) ==
  LET s1 == [s EXCEPT !.audio.elapsedRef = @ + 1]
  IN IF s1.audio.elapsedRef >= MAX_AUDIO_RECORDING_SECONDS /\ s1.audio.mediaRecorderRef # 0
     THEN RecorderStop(s1, s1.audio.mediaRecorderRef)
     ELSE s1

\* startRecording from the creation of the MediaRecorder on
startRecordingStart(s, c, recordingStream) ==
  LET s1 == [s EXCEPT
               !.audio.streamRef = recordingStream,
               !.audio.chunksRef = <<>>,
               !.recorders = Append(@, [NewRecorder(s, recordingStream,
                                                    Handler("audio", 0), c)
                                          EXCEPT !.sink = "audio", !.bitrate = 0]),
               !.audio.mediaRecorderRef = Len(s.recorders) + 1]
      s2 == [s1 EXCEPT !.audio.isRecordingRef = TRUE, !.audio.elapsedRef = 0]
      s3 == [SetInterval(s2, "audioElapsed", c) EXCEPT
               !.audio.timerRef = NewIntervalId(s2)]
  IN Finish(s3, c)

startRecordingCatch(s, c) ==
  Finish(releaseStreams(AudioError(s, "Failed to start audio recording")), c)

\* a getUserMedia of startRecording resolved: a new live stream
AudioAcquired(s) ==
  [s EXCEPT !.nStreams = @ + 1, !.liveStreams = @ \cup {s.nStreams + 1}]

\* startRecording after acquireSystemAudio
startRecordingSystem(s, c) ==
  LET s1 == AudioAcquired(s)
      s2 == [s1 EXCEPT !.audio.desktopStreamRef = s1.nStreams]
  IN IF s.calls[c].mode = "system+mic"
     THEN [s2 EXCEPT !.calls[c].pc = "acquireMic"]
     ELSE startRecordingStart(s2, c, s1.nStreams)

\* startRecording after acquireMicStream; with the system audio the two are
\* mixed into the stream of a new AudioContext's destination
startRecordingMic(s, c) ==
  LET s1 == AudioAcquired(s)
      s2 == [s1 EXCEPT !.audio.micStreamRef = s1.nStreams]
  IN IF s.calls[c].mode = "system+mic"
     THEN LET s3 == [AudioAcquired(s2) EXCEPT !.audio.audioContextRef = TRUE]
          IN startRecordingStart(s3, c, s3.nStreams)
     ELSE startRecordingStart(s2, c, s1.nStreams)

\* acquireSystemAudio or acquireMicStream settles for call c
AudioAcquireDone(c, ok) ==
  /\ c \in DOMAIN calls
  /\ calls[c].pc \in {"acquireSystem", "acquireMic"}
  /\ IF ~ok THEN Commit(startRecordingCatch(St, c))
     ELSE IF calls[c].pc = "acquireSystem"
          THEN Commit(startRecordingSystem(St, c))
          ELSE Commit(startRecordingMic(St, c))

\* recorder.onstop of startRecording up to its first await
audioOnStop(s) ==
  LET chunks == s.audio.chunksRef
      s1 == [s EXCEPT !.audio.chunksRef = <<>>]
      s2 == audioClearTimer(releaseStreams(s1))
      s3 == [s2 EXCEPT !.audio.isRecordingRef = FALSE, !.audio.elapsedRef = 0]
  IN IF Len(chunks) = 0
     THEN AudioError(s3, "No audio data recorded")
     ELSE LET s4 == [s3 EXCEPT !.audio.saveCalls = Append(@, chunks)]
          IN NewCall(s4, [Call("audioOnStop", "audioSave") EXCEPT
                            !.clip = Len(s4.audio.saveCalls)])

\* recorder.onstop of startRecording after window.api.saveAudioRecording
audioSaveSettled(s, c, ok) ==
  IF ok
  THEN Finish([s EXCEPT !.audio.onSaved = Append(@, s.calls[c].clip)], c)
  ELSE Finish(AudioError(s, "Failed to save audio"), c)

\* window.api.saveAudioRecording settles for call c (the files of the main
\* process left aside)
AudioSaveDone(c, ok) ==
  /\ c \in DOMAIN calls
  /\ calls[c].pc = "audioSave"
  /\ Commit(audioSaveSettled(St, c, ok))

\* stopRecording of useAudioRecorder
StopRecording ==
  IF ~audio.isRecordingRef \/ audio.mediaRecorderRef = 0
  THEN Commit(Rejected(St))
  ELSE Commit(RecorderStop(Invoked(St), audio.mediaRecorderRef))

----------------------------------------------------------------------------
\* Tasks of the event loop

\* one second passes: every armed interval and every recording recorder is due.
\* Seconds are counted only while an interval or a recorder is there to observe
\* them.
Second ==
  /\ due = {}
  /\ intervals # {} \/ \E r \in DOMAIN recorders : recorders[r].state = "recording"
  /\ Commit([St EXCEPT
       !.clock = @ + 1,
       !.due = {<<"timer", i.id>> : i \in intervals} \cup
               {<<"data", r>> : r \in {x \in DOMAIN recorders :
                                         recorders[x].state = "recording"}}])

\* recorder.ondataavailable: the chunk is pushed to the chunk list of the hook
\* that created recorder r
PushChunk(s, r) ==
  IF s.recorders[r].sink = "audio"
  THEN [s EXCEPT !.audio.chunksRef = Append(@, <<r, s.recorders[r].n + 1>>),
                 !.recorders[r].n = @ + 1]
  ELSE [s EXCEPT !.chunksRef = Append(@, <<r, s.recorders[r].n + 1>>),
                 !.recorders[r].n = @ + 1]

\* a timeslice of recorder r is delivered
DataAvailable(r) ==
  /\ <<"data", r>> \in due
  /\ Commit([PushChunk(St, r) EXCEPT !.due = @ \ {<<"data", r>>}])

\* the callback of interval t
TimerFire(t) ==
  /\ <<"timer", t>> \in due
  /\ \A r \in DOMAIN recorders : <<"data", r>> \notin due
  /\ LET i  == CHOOSE x \in intervals : x.id = t
         s1 == [St EXCEPT !.due = @ \ {<<"timer", t>>}]
     IN CASE i.kind = "rotation"     -> Commit(rotationTick(s1))
          [] i.kind = "elapsed"      -> Commit(elapsedTick(s1))
          [] i.kind = "audioElapsed" -> Commit(audioElapsedTick(s1))

\* The final dataavailable of a stopped recorder carries the data encoded since
\* the last timeslice.  A recorder stopped before its first timeslice may have
\* encoded nothing yet (the event then has size 0 and is dropped by the
\* handler); one that has delivered a timeslice has a tail to flush.
FlushChoices(r) == IF recorders[r].n = 0 THEN BOOLEAN ELSE {TRUE}

\* the final dataavailable (when flush, it carries data) and the stop event of
\* recorder r, followed by whatever was waiting for the stop
StopEvent(r, flush) ==
  /\ r \in DOMAIN recorders
  /\ recorders[r].stopQueued
  /\ LET h  == recorders[r].onstop
         s0 == [St EXCEPT !.recorders[r].stopQueued = FALSE]
         s1 == IF flush THEN PushChunk(s0, r) ELSE s0
     IN CASE h.kind = "none"          -> Commit(s1)
          [] h.kind = "audio"         -> Commit(audioOnStop(s1))
          [] h.kind = "manual"        -> Commit(manualOnStop(s1))
          [] h.kind = "stopBuffering" -> Commit(stopBufferingOnStop(s1))
          [] h.kind = "restart"       -> Commit(restartBufferingOnStop(s1, h.call))
          [] h.kind = "resolve" /\ calls[h.call].op = "rotateBuffer"
                                      -> Commit(rotateBufferResume(s1, h.call))
          [] h.kind = "resolve" /\ calls[h.call].op = "saveClip"
                                      -> Commit(saveClipStopped(s1, h.call))

\* saveChunks after window.api.saveRecording, and the caller that awaited it
saveChunksSettled(s, c, ok) ==
  LET s1 == IF ok
            THEN [s EXCEPT !.onSaved = Append(@, s.calls[c].clip)]
            ELSE Error(s, "Failed to save")
  IN IF s.calls[c].op = "saveClip"
     THEN saveClipResume(s1, c)
     ELSE Finish(s1, c)

\* window.api.saveRecording settles for call c (the files of the main process
\* left aside)
SaveDone(c, ok) ==
  /\ c \in DOMAIN calls
  /\ calls[c].pc = "save"
  /\ Commit(saveChunksSettled(St, c, ok))

\* the 200 ms pause of restartBuffering is over: acquireStream is called
PauseDone(c) ==
  /\ c \in DOMAIN calls
  /\ calls[c].pc = "pause"
  /\ Commit(acquireStream(St, c))

----------------------------------------------------------------------------
\* The interleaving model of useScreenRecorder

InitOptions(bufferLength, options) ==
  /\ statusRef = "idle"
  /\ mediaRecorderRef = 0
  /\ streamRef = 0
  /\ chunksRef = <<>>
  /\ completedChunksRef = <<>>
  /\ timerRef = 0
  /\ rotationTimerRef = 0
  /\ elapsedRef = 0
  /\ bufferElapsedRef = 0
  /\ sourceIdRef = 0
  /\ bufferLengthRef = bufferLength
  /\ optionRefs = options
  /\ rawDesktopStreamRef = 0
  /\ micStreamRef = 0
  /\ audioContextRef = FALSE
  /\ canvasRef = <<>>
  /\ consoleWarn = 0
  /\ armedAtRelease = {}
  /\ files = {}
  /\ app = AppInit
  /\ offscreenVideoRef = 0
  /\ animFrameRef = 0
  /\ croppers = <<>>
  /\ audioContexts = 0
  /\ stoppedBuffers = {}
  /\ settingsPanel = SettingsInit
  /\ dateNow = 0
  /\ savedPrompts = <<>>
  /\ regionBoxVisible = FALSE
  /\ regionSelector = RegionSelectorInit
  /\ trimmer = TrimmerInit
  /\ ipcCalls = <<>>
  /\ disk = InitialDisk
  /\ recorders = <<>>
  /\ liveStreams = {}
  /\ nStreams = 0
  /\ intervals = {}
  /\ nTimers = 0
  /\ clock = 0
  /\ due = {}
  /\ calls = <<>>
  /\ saveCalls = <<>>
  /\ onSaved = <<>>
  /\ onError = <<>>
  /\ audio = AudioInit
  /\ nOps = 0
  /\ rejected = 0

\* the hook mounted with the application's initial options
InitWith(bufferLength) == InitOptions(bufferLength, DefaultOptions)

Init == InitWith(BufferLength)

\* The 1-second tasks that are due run before any task queued after them.
Quiet == due = {}

\* the application may invoke one more hook function
MayInvoke == Quiet /\ nOps < MaxOps

Next ==
  \/ MayInvoke /\ \E srcId \in SourceIds : StartBuffering(srcId)
  \/ MayInvoke /\ \E srcId \in SourceIds : StartManualRecording(srcId)
  \/ MayInvoke /\ StopManualRecording
  \/ MayInvoke /\ StopBuffering
  \/ MayInvoke /\ RestartBuffering
  \/ MayInvoke /\ SaveClip
  \/ Quiet /\ \E c \in DOMAIN calls, ok \in BOOLEAN : AcquireDone(c, ok)
  \/ Quiet /\ \E c \in DOMAIN calls : BuildDone(c)
  \/ Quiet /\ \E c \in DOMAIN calls, ok \in BOOLEAN : SaveDone(c, ok)
  \/ Quiet /\ \E c \in DOMAIN calls : PauseDone(c)
  \/ Quiet /\ \E r \in DOMAIN recorders : \E flush \in FlushChoices(r) : StopEvent(r, flush)
  \/ clock < MaxClock /\ Second
  \/ \E r \in DOMAIN recorders : DataAvailable(r)
  \/ \E t \in 1..nTimers : TimerFire(t)

Spec == Init /\ [][Next]_vars

----------------------------------------------------------------------------
\* Scenarios: the application invokes the hook functions of a script in order

Invoke(op) ==
  CASE op = "startBuffering"       -> \E srcId \in SourceIds : StartBuffering(srcId)
    [] op = "startManualRecording" -> \E srcId \in SourceIds : StartManualRecording(srcId)
    [] op = "stopManualRecording"  -> StopManualRecording
    [] op = "stopBuffering"        -> StopBuffering
    [] op = "restartBuffering"     -> RestartBuffering
    [] op = "saveClip"             -> SaveClip

Scripted(script) == Quiet /\ nOps < Len(script) /\ Invoke(script[nOps + 1])

\* stopBuffering arrives while a saveClip is in progress
StopDuringSaveScript == <<"startBuffering", "saveClip", "stopBuffering">>

NextStopDuringSave ==
  \/ Scripted(StopDuringSaveScript)
  \/ Quiet /\ \E c \in DOMAIN calls, ok \in BOOLEAN : AcquireDone(c, ok)
  \/ Quiet /\ \E c \in DOMAIN calls : BuildDone(c)
  \/ Quiet /\ \E c \in DOMAIN calls, ok \in BOOLEAN : SaveDone(c, ok)
  \/ Quiet /\ \E r \in DOMAIN recorders : \E flush \in FlushChoices(r) : StopEvent(r, flush)
  \/ clock < MaxClock /\ Second
  \/ \E r \in DOMAIN recorders : DataAvailable(r)
  \/ \E t \in 1..nTimers : TimerFire(t)

SpecStopDuringSave == Init /\ [][NextStopDuringSave]_vars

----------------------------------------------------------------------------
\* Vocabulary of the properties

Recording == {r \in DOMAIN recorders : recorders[r].state = "recording"}

\* call c is suspended at an await that will still settle
InFlight(c) ==
  \/ calls[c].pc \in {"acquire", "build", "save", "pause",
                      "acquireSystem", "acquireMic", "audioSave"}
  \/ /\ calls[c].pc = "stop"
     /\ recorders[calls[c].recorder].stopQueued
     /\ recorders[calls[c].recorder].onstop.call = c

\* no operation is in flight: no suspended call, no queued recorder event, no
\* due task
Settled ==
  /\ \A c \in DOMAIN calls : ~InFlight(c)
  /\ \A r \in DOMAIN recorders : ~recorders[r].stopQueued
  /\ due = {}

----------------------------------------------------------------------------
\* C1: under every interleaving of the hook's functions there is at most one
\* live capture stream and at most one active recorder at any instant.
C1_AtMostOneSession ==
  /\ Cardinality(liveStreams) <= 1
  /\ Cardinality(Recording) <= 1

\* C2: with no operation in flight, status Buffering or Recording means exactly
\* one live session (the stream of streamRef, recorded by the recorder of
\* mediaRecorderRef), and status Idle means no live stream, no active recorder
\* and no armed timer.
C2_OneSessionPerStatus ==
  Settled =>
    /\ statusRef # "idle" =>
         /\ liveStreams = {streamRef}
         /\ Recording = {mediaRecorderRef}
         /\ recorders[mediaRecorderRef].stream = streamRef
    /\ statusRef = "idle" =>
         /\ liveStreams = {}
         /\ Recording = {}
         /\ intervals = {}

\* C3: a hook function invoked in a status where it is not legal changes nothing
\* (no ref, no browser object, no suspended call) and fires no callback.
C3_IllegalCallsAreNoOps ==
  [][/\ (statusRef # "idle" /\ \E srcId \in SourceIds : StartBuffering(srcId))
          => UNCHANGED ctrl
     /\ (statusRef # "idle" /\ \E srcId \in SourceIds : StartManualRecording(srcId))
          => UNCHANGED ctrl
     /\ (statusRef # "buffering" /\ SaveClip) => UNCHANGED ctrl
     /\ (statusRef # "buffering" /\ StopBuffering) => UNCHANGED ctrl
     /\ (statusRef # "buffering" /\ RestartBuffering) => UNCHANGED ctrl
     /\ (statusRef # "recording" /\ StopManualRecording) => UNCHANGED ctrl]_vars

\* an illegal call was made while a session was live
C3_Witness == rejected > 0 /\ statusRef # "idle" /\ Recording # {}

\* C6: saveClip called in Buffering with a non-empty completedChunks hands
\* exactly completedChunks to the save, leaves completedChunks empty, and does
\* not touch the current session, neither when it is called nor when it resumes
\* after the save with the recorder still recording: no recorder is stopped or
\* created, no stream is released or acquired, the in-progress chunk list is
\* not cleared.
SessionUntouched ==
  UNCHANGED <<recorders, mediaRecorderRef, liveStreams, nStreams, streamRef, chunksRef>>

C8_ResumesWithoutWaitingForSave ==
  \A c \in DOMAIN calls :
    (calls[c].op = "saveClip" /\ calls[c].pc = "save") =>
      /\ rotationTimerRef # 0
      /\ mediaRecorderRef \in Recording

\* C8 as the code has it: saveClip waits for its save call.  While the save of
\* a saveClip call is pending, that call has armed no rotation timer, started no
\* recorder and acquired no stream.
C8_ResumesAfterSave ==
  \A c \in DOMAIN calls :
    (calls[c].op = "saveClip" /\ calls[c].pc = "save") =>
      /\ \A i \in intervals : i.by # c
      /\ \A r \in DOMAIN recorders : recorders[r].by # c
      /\ calls[c].desktop = 0

\* a saveClip whose save has settled has re-armed the rotation timer
C8_Witness ==
  \E k \in DOMAIN saveCalls, i \in intervals :
    /\ saveCalls[k].prefix = "clip"
    /\ i.by = saveCalls[k].by
    /\ calls[i.by].pc = "done"

\* C9 as claimed: a saveClip called while the in-progress chunk list and
\* completedChunks are both empty never hands anything to the file save.
C9_EmptyAtCallNeverSaves ==
  \A c \in DOMAIN calls :
    (calls[c].op = "saveClip" /\ calls[c].emptyAtCall) => calls[c].pc # "save"

\* C9 as the code has it: the clip is what the stopped recorder has delivered
\* up to its stop event, final data included.  When that is empty, the error
\* callback fires exactly once, nothing is handed to the file save, and saveClip
\* returns (so it fires no further callback and saves nothing later).
C9_EmptyClipReportsOnce ==
  [][\A r \in DOMAIN recorders :
       (/\ recorders[r].onstop.kind = "resolve"
        /\ calls[recorders[r].onstop.call].op = "saveClip"
        /\ chunksRef = <<>>
        /\ StopEvent(r, FALSE)) =>
         /\ onError' = Append(onError, "Buffer is empty, nothing to clip")
         /\ saveCalls' = saveCalls
         /\ onSaved' = onSaved
         /\ calls'[recorders[r].onstop.call].pc = "done"]_vars

\* the empty-buffer error was reported and nothing was saved
C9_Witness ==
  /\ onError = <<"Buffer is empty, nothing to clip">>
  /\ saveCalls = <<>>
  /\ \E c \in DOMAIN calls : calls[c].op = "saveClip" /\ calls[c].pc = "done"

----------------------------------------------------------------------------
\* Scenario: buffering runs without any other call, for each buffer length the
\* settings offer

\* a second passes with no stop event left undelivered: the events a stop queues
\* are dispatched within milliseconds
PromptSecond == (\A r \in DOMAIN recorders : ~recorders[r].stopQueued) /\ Second

NextRotation ==
  \/ Scripted(<<"startBuffering">>)
  \/ Quiet /\ \E c \in DOMAIN calls, ok \in BOOLEAN : AcquireDone(c, ok)
  \/ Quiet /\ \E c \in DOMAIN calls : BuildDone(c)
  \/ Quiet /\ \E r \in DOMAIN recorders : \E flush \in FlushChoices(r) : StopEvent(r, flush)
  \/ clock < RotationClock /\ PromptSecond
  \/ \E r \in DOMAIN recorders : DataAvailable(r)
  \/ \E t \in 1..nTimers : TimerFire(t)

SpecRotation ==
  (\E bufferLength \in BufferLengths : InitWith(bufferLength)) /\ [][NextRotation]_vars

\* the chunks a recorder has delivered, in order
ChunksOf(r) == [k \in 1..recorders[r].n |-> <<r, k>>]

\* how long the session of recorder r lasted
SessionSeconds(r) == recorders[r].stoppedAt - recorders[r].startedAt

\* the clock at which the recorder of startBuffering started
BufferingSince ==
  recorders[CHOOSE r \in DOMAIN recorders :
              calls[recorders[r].by].op = "startBuffering"].startedAt

\* C4: for every buffer length P, once buffering has run for P seconds without
\* another call and the rotation has settled, completedChunks is non-empty; and
\* whenever it is non-empty it holds the chunks of exactly one session, which
\* lasted exactly P seconds.
C4_CompletedIsOnePeriod ==
  /\ (/\ statusRef = "buffering"
      /\ Settled
      /\ clock - BufferingSince >= bufferLengthRef) => completedChunksRef # <<>>
  /\ completedChunksRef # <<>> =>
       \E r \in DOMAIN recorders :
         /\ completedChunksRef = ChunksOf(r)
         /\ SessionSeconds(r) = bufferLengthRef

\* two rotations have completed with the longest buffer length
C4_Witness ==
  /\ bufferLengthRef = 120
  /\ statusRef = "buffering"
  /\ Len(recorders) = 3
  /\ completedChunksRef = ChunksOf(2)
  /\ Settled

----------------------------------------------------------------------------
\* Scenario: the application invokes the hook functions of a script at given
\* seconds of the clock

ScriptedAt(script) ==
  /\ Quiet
  /\ nOps < Len(script)
  /\ clock = script[nOps + 1][2]
  /\ Invoke(script[nOps + 1][1])

\* buffering starts; saveClip is called 35 seconds later
ReplayScript == << <<"startBuffering", 0>>, <<"saveClip", 35>> >>

NextReplay ==
  \/ ScriptedAt(ReplayScript)
  \/ Quiet /\ \E c \in DOMAIN calls, ok \in BOOLEAN : AcquireDone(c, ok)
  \/ Quiet /\ \E c \in DOMAIN calls : BuildDone(c)
  \/ Quiet /\ \E c \in DOMAIN calls, ok \in BOOLEAN : SaveDone(c, ok)
  \/ Quiet /\ \E r \in DOMAIN recorders : \E flush \in FlushChoices(r) : StopEvent(r, flush)
  \/ clock < ReplayClock /\ Second
  \/ \E r \in DOMAIN recorders : DataAvailable(r)
  \/ \E t \in 1..nTimers : TimerFire(t)

SpecReplay == InitWith(DefaultBufferLength) /\ [][NextReplay]_vars

\* C5: buffering with buffer length 30, one rotation at 30 s, saveClip called at
\* 35 s: exactly one payload is handed to the file save, it is the whole
\* completed session, which lasted 30 s; the session running at the call
\* keeps recording; until saveClip resumes the rotation counter stays at 5, and
\* once it has resumed the rotation timer runs and the counter is the number of
\* seconds since the rotation (5 when the save settles within the second).
C5_ClipAfterOneRotation ==
  (/\ \E c \in DOMAIN calls : calls[c].op = "saveClip"
   /\ Len(recorders) >= 2
   /\ recorders[2].startedAt = 30) =>
    /\ Len(saveCalls) = 1
    /\ saveCalls[1].chunks = ChunksOf(1)
    /\ SessionSeconds(1) = 30
    /\ Len(onSaved) <= 1
    /\ statusRef = "buffering"
    /\ mediaRecorderRef = 2
    /\ Recording = {2}
    /\ liveStreams = {streamRef}
    /\ \A c \in DOMAIN calls :
         /\ (calls[c].op = "saveClip" /\ calls[c].pc = "save") => bufferElapsedRef = 5
         /\ (calls[c].op = "saveClip" /\ calls[c].pc = "done") =>
              /\ \E i \in intervals : i.id = rotationTimerRef /\ i.kind = "rotation"
              /\ Quiet => bufferElapsedRef = clock - 30
              /\ clock = 35 => bufferElapsedRef = 5

\* the clip was saved within the second and buffering goes on with counter 5
C5_Witness ==
  /\ clock = 35
  /\ Len(recorders) = 2
  /\ recorders[2].startedAt = 30
  /\ onSaved = <<1>>
  /\ \E c \in DOMAIN calls : calls[c].op = "saveClip" /\ calls[c].pc = "done"
  /\ bufferElapsedRef = 5
  /\ rotationTimerRef # 0

----------------------------------------------------------------------------
\* Scenario: saveClip is called, possibly twice, while buffering; every await
\* settles and every queued event is delivered

DoubleSaveScript == <<"startBuffering", "saveClip", "saveClip">>

NextDoubleSave ==
  \/ Scripted(DoubleSaveScript)
  \/ Quiet /\ \E c \in DOMAIN calls, ok \in BOOLEAN : AcquireDone(c, ok)
  \/ Quiet /\ \E c \in DOMAIN calls : BuildDone(c)
  \/ Quiet /\ \E c \in DOMAIN calls, ok \in BOOLEAN : SaveDone(c, ok)
  \/ Quiet /\ \E r \in DOMAIN recorders : \E flush \in FlushChoices(r) : StopEvent(r, flush)
  \/ clock < MaxClock /\ Second
  \/ \E r \in DOMAIN recorders : DataAvailable(r)
  \/ \E t \in 1..nTimers : TimerFire(t)

\* the event loop runs every task that is ready
Settles ==
  /\ WF_vars(Quiet /\ \E c \in DOMAIN calls, ok \in BOOLEAN : AcquireDone(c, ok))
  /\ WF_vars(Quiet /\ \E c \in DOMAIN calls : BuildDone(c))
  /\ WF_vars(Quiet /\ \E c \in DOMAIN calls, ok \in BOOLEAN : SaveDone(c, ok))
  /\ WF_vars(Quiet /\ \E r \in DOMAIN recorders :
                        \E flush \in FlushChoices(r) : StopEvent(r, flush))
  /\ WF_vars(\E r \in DOMAIN recorders : DataAvailable(r))
  /\ WF_vars(\E t \in 1..nTimers : TimerFire(t))

SpecDoubleSave == Init /\ [][NextDoubleSave]_vars /\ Settles

RestartFailed == \E k \in DOMAIN onError : onError[k] = "Failed to restart buffer"

BufferingRuns ==
  /\ statusRef = "buffering"
  /\ mediaRecorderRef \in Recording
  /\ \E i \in intervals : i.id = rotationTimerRef /\ i.kind = "rotation"

\* the ids the calls of the scenario can get: the scripted calls and one
\* rotation per second
CallIds == 1..(Len(DoubleSaveScript) + MaxClock)

\* call c is a saveClip that has handed its clip to the save and not returned
Saving(c) ==
  /\ c \in DOMAIN calls
  /\ calls[c].op = "saveClip"
  /\ calls[c].pc \in {"save", "acquire", "build"}

----------------------------------------------------------------------------
\* Scenario: a manual screen recording or an audio recording is started and
\* never stopped by the application

NextCap ==
  \/ Quiet /\ nOps = 0 /\ \E srcId \in SourceIds : StartManualRecording(srcId)
  \/ Quiet /\ nOps = 0 /\ \E mode \in AudioModes : StartRecording(mode)
  \/ Quiet /\ \E c \in DOMAIN calls, ok \in BOOLEAN : AcquireDone(c, ok)
  \/ Quiet /\ \E c \in DOMAIN calls : BuildDone(c)
  \/ Quiet /\ \E c \in DOMAIN calls, ok \in BOOLEAN : AudioAcquireDone(c, ok)
  \/ Quiet /\ \E c \in DOMAIN calls, ok \in BOOLEAN : SaveDone(c, ok)
  \/ Quiet /\ \E c \in DOMAIN calls, ok \in BOOLEAN : AudioSaveDone(c, ok)
  \/ Quiet /\ \E r \in DOMAIN recorders : \E flush \in FlushChoices(r) : StopEvent(r, flush)
  \/ clock < CapClock /\ PromptSecond
  \/ \E r \in DOMAIN recorders : DataAvailable(r)
  \/ \E t \in 1..nTimers : TimerFire(t)

\* time passes, and the event loop runs every task that is ready
SpecCap ==
  /\ Init
  /\ [][NextCap]_vars
  /\ Settles
  /\ WF_vars(clock < CapClock /\ PromptSecond)
  /\ WF_vars(Quiet /\ \E c \in DOMAIN calls, ok \in BOOLEAN : AudioAcquireDone(c, ok))
  /\ WF_vars(Quiet /\ \E c \in DOMAIN calls, ok \in BOOLEAN : AudioSaveDone(c, ok))

\* C10: without any stop call, the recorder of a manual screen recording and the
\* recorder of an audio recording stop exactly when the elapsed counter of their
\* hook reaches 1800, 1800 seconds after they started; their stop event leaves
\* the hook idle (status 'idle' / isRecording false) with the elapsed counter 0
\* and no elapsed timer; and every recording that has started gets there.
C10_CapStopsRecording ==
  /\ [][\A r \in DOMAIN recorders :
          /\ (recorders[r].state = "recording" /\ recorders'[r].state = "inactive") =>
               /\ clock' - recorders[r].startedAt = 1800
               /\ recorders[r].sink = "screen" => elapsedRef' = MAX_RECORDING_SECONDS
               /\ recorders[r].sink = "audio" =>
                    audio'.elapsedRef = MAX_AUDIO_RECORDING_SECONDS
          /\ (recorders[r].stopQueued /\ ~recorders'[r].stopQueued) =>
               /\ recorders[r].sink = "screen" =>
                    statusRef' = "idle" /\ elapsedRef' = 0 /\ timerRef' = 0
               /\ recorders[r].sink = "audio" =>
                    /\ ~audio'.isRecordingRef
                    /\ audio'.elapsedRef = 0
                    /\ audio'.timerRef = 0
               /\ \A i \in intervals' : i.by # recorders[r].by]_vars
  /\ (statusRef = "recording") ~> (statusRef = "idle" /\ elapsedRef = 0)
  /\ audio.isRecordingRef ~> (~audio.isRecordingRef /\ audio.elapsedRef = 0)

\* a recording ran into the cap, its stop event was delivered and its hook is
\* idle again
C10_Witness ==
  \E r \in DOMAIN recorders :
    /\ SessionSeconds(r) = 1800
    /\ ~recorders[r].stopQueued
    /\ recorders[r].n > 1800
    /\ statusRef = "idle" /\ elapsedRef = 0
    /\ ~audio.isRecordingRef /\ audio.elapsedRef = 0
    /\ intervals = {}
    /\ liveStreams = {}

----------------------------------------------------------------------------
\* the three calls of the stop-during-save scenario have all passed their guard
StopBufferingAccepted == nOps = Len(StopDuringSaveScript) /\ rejected = 0

\* C11: once a stopBuffering call made in Buffering has passed its guard and
\* everything in flight has settled, the status is Idle, no rotation timer is
\* armed and no stream is live; also when the call arrives while a rotation
\* or a saveClip is in flight.
C11_StopBufferingReachesIdle ==
  (StopBufferingAccepted /\ Settled) =>
    /\ statusRef = "idle"
    /\ rotationTimerRef = 0
    /\ intervals = {}
    /\ liveStreams = {}

----------------------------------------------------------------------------
\* Scenarios with the options of the hook chosen at mount

\* the region used when a region is set
RegionW == 401
RegionH == 226

\* the options as the application passes them: regionBoxEnabled is the
\* aspect-ratio lock flag
AppOptions(resolution, systemAudio, mic, lock, region) ==
  [DefaultOptions EXCEPT !.recordingResolutionRef = resolution,
                         !.systemAudioEnabledRef = systemAudio,
                         !.micEnabledRef = mic,
                         !.customAspectRatioRef = lock,
                         !.regionBoxEnabledRef = lock,
                         !.regionBoundsRef = region]

\* the option combinations explored: the audio toggles, the aspect-ratio lock,
\* with or without a region
OptionChoices ==
  {AppOptions("1080p", a, m, l, g) :
     a \in BOOLEAN, m \in BOOLEAN, l \in BOOLEAN, g \in {<<>>, <<RegionW, RegionH>>}}

InitChoice == \E o \in OptionChoices : InitOptions(BufferLength, o)

\* a settings change restarts the buffer
RestartScript == <<"startBuffering", "restartBuffering">>

NextRestart ==
  \/ Scripted(RestartScript)
  \/ Quiet /\ \E c \in DOMAIN calls, ok \in BOOLEAN : AcquireDone(c, ok)
  \/ Quiet /\ \E c \in DOMAIN calls : BuildDone(c)
  \/ Quiet /\ \E c \in DOMAIN calls : BuildFailed(c)
  \/ Quiet /\ \E c \in DOMAIN calls : PauseDone(c)
  \/ Quiet /\ \E r \in DOMAIN recorders : \E flush \in FlushChoices(r) : StopEvent(r, flush)
  \/ clock < MaxClock /\ PromptSecond
  \/ \E r \in DOMAIN recorders : DataAvailable(r)
  \/ \E t \in 1..nTimers : TimerFire(t)

SpecRestart == InitChoice /\ [][NextRestart]_vars

\* the re-acquisition of a restartBuffering call has failed and the call is over
ReacquisitionFailed ==
  /\ \E c \in DOMAIN calls : calls[c].op = "restartBuffering" /\ calls[c].pc = "done"
  /\ \E i \in DOMAIN onError : onError[i] = "Failed to restart buffer"

\* nothing of a capture is held: no live stream, no stream ref, no canvas, no
\* AudioContext
NothingHeld ==
  /\ liveStreams = {}
  /\ streamRef = 0 /\ rawDesktopStreamRef = 0 /\ micStreamRef = 0
  /\ ~audioContextRef
  /\ canvasRef = <<>>

\* C12: when the re-acquisition of restartBuffering (acquireStream or
\* buildStream) fails, the controller ends in Idle with onError called exactly
\* once, no recorder recording, no rotation timer, no live stream or partially
\* built capture resource, and nothing in flight that would retry.
C12_FailedRestartLeavesNothing ==
  (ReacquisitionFailed /\ Settled) =>
    /\ statusRef = "idle"
    /\ Len(onError) = 1
    /\ Recording = {}
    /\ rotationTimerRef = 0 /\ intervals = {}
    /\ NothingHeld
    /\ \A c \in DOMAIN calls : calls[c].pc = "done"

----------------------------------------------------------------------------
\* a manual recording that is started and stopped by hand
ManualStopScript == <<"startManualRecording", "stopManualRecording">>

NextManualStop ==
  \/ Scripted(ManualStopScript)
  \/ Quiet /\ \E c \in DOMAIN calls, ok \in BOOLEAN : AcquireDone(c, ok)
  \/ Quiet /\ \E c \in DOMAIN calls : BuildDone(c)
  \/ Quiet /\ \E c \in DOMAIN calls : BuildFailed(c)
  \/ Quiet /\ \E c \in DOMAIN calls, ok \in BOOLEAN : SaveDone(c, ok)
  \/ Quiet /\ \E r \in DOMAIN recorders : \E flush \in FlushChoices(r) : StopEvent(r, flush)
  \/ clock < MaxClock /\ PromptSecond
  \/ \E r \in DOMAIN recorders : DataAvailable(r)
  \/ \E t \in 1..nTimers : TimerFire(t)

SpecManualStop == InitChoice /\ [][NextManualStop]_vars

\* C13: on every path that tears a stream down the elapsed timer and the
\* rotation timer are cleared before the stream is released: no timer of the
\* hook is armed at the moment releaseStream / releaseStreams runs.
C13_TimersClearedBeforeRelease == armedAtRelease = {}

----------------------------------------------------------------------------
\* one start: the background buffer, a manual recording or an audio recording

NextStart ==
  \/ Quiet /\ nOps = 0 /\ \E srcId \in SourceIds : StartBuffering(srcId)
  \/ Quiet /\ nOps = 0 /\ \E srcId \in SourceIds : StartManualRecording(srcId)
  \/ Quiet /\ nOps = 0 /\ \E mode \in AudioModes : StartRecording(mode)
  \/ Quiet /\ \E c \in DOMAIN calls, ok \in BOOLEAN : AcquireDone(c, ok)
  \/ Quiet /\ \E c \in DOMAIN calls : BuildDone(c)
  \/ Quiet /\ \E c \in DOMAIN calls : BuildFailed(c)
  \/ Quiet /\ \E c \in DOMAIN calls, ok \in BOOLEAN : AudioAcquireDone(c, ok)
  \/ Quiet /\ \E r \in DOMAIN recorders : \E flush \in FlushChoices(r) : StopEvent(r, flush)
  \/ clock < MaxClock /\ PromptSecond
  \/ \E r \in DOMAIN recorders : DataAvailable(r)
  \/ \E t \in 1..nTimers : TimerFire(t)

SpecStart == InitChoice /\ [][NextStart]_vars

\* the messages with which the three start functions report a failure
StartFailures ==
  {"Failed to start buffering", "Failed to start recording",
   "Failed to start audio recording"}

\* the start has failed: its catch has reported
StartFailed ==
  \/ \E i \in DOMAIN onError : onError[i] \in StartFailures
  \/ \E i \in DOMAIN audio.onError : audio.onError[i] \in StartFailures

\* C14: if stream acquisition or stream building fails inside startBuffering,
\* startManualRecording or the audio startRecording, the status stays Idle
\* (isRecording false), onError is called exactly once with a message naming
\* the failed operation, no timer is started, every stream acquired before the
\* failure is released, and nothing is in flight that would retry.
C14_FailedStartLeavesNothing ==
  StartFailed =>
    /\ statusRef = "idle" /\ ~audio.isRecordingRef
    /\ Len(onError) + Len(audio.onError) = 1
    /\ intervals = {} /\ nTimers = 0
    /\ Recording = {}
    /\ liveStreams = {}
    /\ \A c \in DOMAIN calls : calls[c].pc = "done"

----------------------------------------------------------------------------
\* the task in which a start learns that the microphone could not be acquired
MicFailed == consoleWarn' = consoleWarn + 1

\* the start went through without the microphone: the session runs on a live
\* stream and no microphone stream is held
StartedWithoutMic ==
  /\ statusRef' \in {"buffering", "recording"}
  /\ streamRef' # 0 /\ streamRef' \in liveStreams'
  /\ mediaRecorderRef' \in Recording'
  /\ micStreamRef' = 0
  /\ ~audioContextRef'

\* C15: in the screen recorder a microphone that cannot be acquired never
\* aborts a start: startBuffering / startManualRecording still reach Buffering /
\* Recording with a stream that has no microphone track, and the condition is
\* reported to the caller.
C15_MicFailureReported ==
  [][MicFailed => (StartedWithoutMic /\ Len(onError') = Len(onError) + 1)]_vars

\* amended: the start goes through without the microphone, and the failure is
\* only logged: onError is not called
C15_MicFailureOnlyLogged ==
  [][MicFailed => (StartedWithoutMic /\ onError' = onError)]_vars

\* a buffer or a recording runs although its microphone could not be acquired
C15_Witness ==
  /\ consoleWarn = 1
  /\ optionRefs.micEnabledRef
  /\ statusRef \in {"buffering", "recording"}
  /\ streamRef \in liveStreams
  /\ micStreamRef = 0
  /\ onError = <<>>

----------------------------------------------------------------------------
\* Region cropping with the aspect-ratio lock off, over a range of regions

\* the small region sizes explored besides RegionW x RegionH
MaxRegion == 4

RegionWidths  == (1..MaxRegion) \cup {RegionW}
RegionHeights == (1..MaxRegion) \cup {RegionH}

InitRegion ==
  \E w \in RegionWidths, h \in RegionHeights :
    InitOptions(BufferLength,
                [DefaultOptions EXCEPT !.regionBoxEnabledRef = TRUE,
                                       !.regionBoundsRef = <<w, h>>])

SpecRegion == InitRegion /\ [][NextStart]_vars

\* n rounded down to the nearest even integer
EvenBelow(n) == (n \div 2) * 2

\* C16: with region cropping enabled and the aspect-ratio lock off, the output
\* target buildStream computes for a region w x h is (w rounded down to the
\* nearest even integer, h rounded down to the nearest even integer) for every
\* positive w and h; 401 x 226 gives 400 x 226.
C16_OutputRoundedDownToEven ==
  canvasRef # <<>> =>
    canvasRef = <<EvenBelow(optionRefs.regionBoundsRef[1]),
                  EvenBelow(optionRefs.regionBoundsRef[2])>>

\* n rounded to an even integer, an odd n going up
EvenAbove(n) == IF n % 2 = 0 THEN n ELSE n + 1

\* amended: each side of the region is rounded to an even integer with the odd
\* values going up, so 401 x 226 gives 402 x 226
C16_OutputRoundedUpToEven ==
  canvasRef # <<>> =>
    canvasRef = <<EvenAbove(optionRefs.regionBoundsRef[1]),
                  EvenAbove(optionRefs.regionBoundsRef[2])>>

\* the canvas built for the region RegionW x RegionH, whose odd side went up
C16_Witness ==
  /\ optionRefs.regionBoundsRef = <<RegionW, RegionH>>
  /\ canvasRef = <<EvenAbove(RegionW), EvenAbove(RegionH)>>
  /\ canvasRef # optionRefs.regionBoundsRef
  /\ statusRef \in {"buffering", "recording"}

----------------------------------------------------------------------------
\* Capture requests over the resolution presets

InitPreset ==
  \E r \in Resolutions, a \in BOOLEAN, m \in BOOLEAN, l \in BOOLEAN,
     g \in {<<>>, <<RegionW, RegionH>>} :
    InitOptions(BufferLength, AppOptions(r, a, m, l, g))

SpecPreset == InitPreset /\ [][NextStart]_vars

\* the getUserMedia requests of the calls that are acquiring or building
Requests == {calls[c].request[1] : c \in {x \in DOMAIN calls : calls[x].request # <<>>}}

\* the capture size of a preset, as the claim lists them
PresetSize(r) ==
  CASE r = "720p"  -> <<1280, 720>>
    [] r = "1080p" -> <<1920, 1080>>
    [] r = "1440p" -> <<2560, 1440>>

\* C17: acquireStream requests 2560 x 1440 whenever region cropping is enabled
\* (the aspect-ratio lock is on or a non-null region is active) whatever the
\* preset, and the preset's maximum otherwise; the frame rate is capped at 60
\* and audio is requested exactly when system audio is enabled.
C17_RequestByLockOrRegion ==
  \A q \in Requests :
    /\ <<q.maxWidth, q.maxHeight>> =
         IF optionRefs.customAspectRatioRef \/ optionRefs.regionBoundsRef # <<>>
         THEN <<2560, 1440>>
         ELSE PresetSize(optionRefs.recordingResolutionRef)
    /\ q.maxFrameRate = 60
    /\ q.audio = optionRefs.systemAudioEnabledRef

\* amended: region cropping is enabled by the regionBoxEnabled option alone,
\* which is the aspect-ratio lock; a region that is set does not enable it
C17_RequestByRegionBox ==
  \A q \in Requests :
    /\ <<q.maxWidth, q.maxHeight>> =
         IF optionRefs.regionBoxEnabledRef
         THEN <<2560, 1440>>
         ELSE PresetSize(optionRefs.recordingResolutionRef)
    /\ q.maxFrameRate = 60
    /\ q.audio = optionRefs.systemAudioEnabledRef

\* a 720p capture with the region box on was requested at 2560 x 1440 and
\* acquired
C17_Witness ==
  /\ optionRefs.recordingResolutionRef = "720p"
  /\ optionRefs.regionBoxEnabledRef
  /\ \E c \in DOMAIN calls :
       /\ calls[c].pc = "build"
       /\ calls[c].request = <<[audio |-> optionRefs.systemAudioEnabledRef,
                                maxWidth |-> 2560, maxHeight |-> 1440,
                                maxFrameRate |-> 60]>>

----------------------------------------------------------------------------
\* Settings changed while the buffer runs

\* the effect that copies a changed bufferLength prop into its ref
SetBufferLength(b) ==
  /\ statusRef = "buffering"
  /\ b # bufferLengthRef
  /\ Commit([St EXCEPT !.bufferLengthRef = b])

\* the effect that copies a changed recordingResolution prop into its ref
SetRecordingResolution(r) ==
  /\ statusRef = "buffering"
  /\ r # optionRefs.recordingResolutionRef
  /\ Commit([St EXCEPT !.optionRefs.recordingResolutionRef = r])

NextSettings ==
  \/ Scripted(<<"startBuffering">>)
  \/ Quiet /\ \E b \in 1..(BufferLength + 1) : SetBufferLength(b)
  \/ Quiet /\ \E r \in Resolutions : SetRecordingResolution(r)
  \/ Quiet /\ \E c \in DOMAIN calls, ok \in BOOLEAN : AcquireDone(c, ok)
  \/ Quiet /\ \E c \in DOMAIN calls : BuildDone(c)
  \/ Quiet /\ \E r \in DOMAIN recorders : \E flush \in FlushChoices(r) : StopEvent(r, flush)
  \/ clock < MaxClock + 1 /\ PromptSecond
  \/ \E r \in DOMAIN recorders : DataAvailable(r)
  \/ \E t \in 1..nTimers : TimerFire(t)

SpecSettings == Init /\ [][NextSettings]_vars

\* the sessions that a rotation has ended
Rotated ==
  {r \in DOMAIN recorders :
     /\ recorders[r].state = "inactive"
     /\ recorders[r].onstop.kind = "resolve"
     /\ calls[recorders[r].onstop.call].op = "rotateBuffer"}

\* C18: the settings other than the region bounds are read once per
\* acquisition: a change made while a capture runs changes nothing about that
\* capture until the next acquisition.  The capture here was acquired with the
\* initial settings, so every rotation comes after BufferLength seconds and
\* every session it starts is encoded at the bitrate of the initial preset.
C18_SettingsReadAtAcquisition ==
  /\ \A r \in Rotated : SessionSeconds(r) = BufferLength
  /\ \A r \in DOMAIN recorders :
       recorders[r].bitrate = BITRATE_MAP[DefaultOptions.recordingResolutionRef]

----------------------------------------------------------------------------
\* The save handlers of the main process.  The file of payload k is named by k;
\* its content tells the raw capture from FFmpeg's output.

RecordingFile(k, content) == [name |-> "recording", k |-> k, content |-> content]
\* filePath + '.tmp.mp4'
RecordingTemp(k, content) == [name |-> "recording.tmp", k |-> k, content |-> content]
\* audio-temp-<timestamp>.webm and the MP3
AudioTemp(k) == [name |-> "audio-temp", k |-> k, content |-> "webm"]
AudioFile(k, content) == [name |-> "audio", k |-> k, content |-> content]

\* FFmpeg succeeds, fails without output, or fails leaving a partial output
FfmpegOutcomes == {"ok", "failed", "failedWithOutput"}

\* save-recording up to its await of FFmpeg: the raw file is written
SaveRecordingWritten(c) ==
  /\ c \in DOMAIN calls
  /\ calls[c].pc = "save"
  /\ Commit([St EXCEPT !.files = @ \cup {RecordingFile(calls[c].clip, "raw")},
                       !.calls[c].pc = "remux"])

\* variant: a failed remux leaves its temporary file behind
saveRecordingRemuxedKeepsTemp(fs, k, outcome) ==
  LET written == CASE outcome = "ok" -> fs \cup {RecordingTemp(k, "faststart")}
                   [] outcome = "failedWithOutput" -> fs \cup {RecordingTemp(k, "partial")}
                   [] outcome = "failed" -> fs
  IN IF outcome = "ok"
     THEN (written \ {RecordingFile(k, "raw"), RecordingTemp(k, "faststart")})
            \cup {RecordingFile(k, "faststart")}
     ELSE written
\* save-recording after FFmpeg: the files it leaves.  On success the original
\* is unlinked and the temporary file renamed to it; on failure the temporary
\* file is removed if it exists.
saveRecordingRemuxed(fs, k, outcome) ==
  LET written == CASE outcome = "ok" -> fs \cup {RecordingTemp(k, "faststart")}
                   [] outcome = "failedWithOutput" -> fs \cup {RecordingTemp(k, "partial")}
                   [] outcome = "failed" -> fs
  IN IF outcome = "ok"
     THEN (written \ {RecordingFile(k, "raw"), RecordingTemp(k, "faststart")})
            \cup {RecordingFile(k, "faststart")}
     ELSE written \ {RecordingTemp(k, "partial")}

\* FFmpeg settles for the save of call c; the handler returns filePath and
\* saveChunks goes on
SaveRecordingDone(c, outcome) ==
  /\ c \in DOMAIN calls
  /\ calls[c].pc = "remux"
  /\ Commit(saveChunksSettled(
              [St EXCEPT !.files = saveRecordingRemuxed(files, calls[c].clip, outcome)],
              c, TRUE))

\* save-audio-recording up to its await of FFmpeg: the WebM capture is written
SaveAudioRecordingWritten(c) ==
  /\ c \in DOMAIN calls
  /\ calls[c].pc = "audioSave"
  /\ Commit([St EXCEPT !.files = @ \cup {AudioTemp(calls[c].clip)},
                       !.calls[c].pc = "transcode"])

\* variant: a failed transcode leaves the WebM capture behind
saveAudioRecordingTranscodedKeepsTemp(fs, k, outcome) ==
  CASE outcome = "ok" -> (fs \ {AudioTemp(k)}) \cup {AudioFile(k, "mp3")}
    [] outcome = "failedWithOutput" -> fs \cup {AudioFile(k, "partial")}
    [] outcome = "failed" -> fs
\* save-audio-recording after FFmpeg: the files it leaves.  The WebM capture is
\* removed on success and on failure; what FFmpeg wrote to the final path stays.
saveAudioRecordingTranscoded(fs, k, outcome) ==
  CASE outcome = "ok" -> (fs \ {AudioTemp(k)}) \cup {AudioFile(k, "mp3")}
    [] outcome = "failedWithOutput" -> (fs \ {AudioTemp(k)}) \cup {AudioFile(k, "partial")}
    [] outcome = "failed" -> fs \ {AudioTemp(k)}

\* FFmpeg settles for the audio save of call c: the handler returns finalPath
\* or throws, and the onstop handler of the audio recorder goes on
SaveAudioRecordingDone(c, outcome) ==
  /\ c \in DOMAIN calls
  /\ calls[c].pc = "transcode"
  /\ Commit(audioSaveSettled(
              [St EXCEPT !.files = saveAudioRecordingTranscoded(files, calls[c].clip,
                                                               outcome)],
              c, outcome = "ok"))

\* one manual recording or one audio recording, started and stopped by hand;
\* a save handler throws before FFmpeg when the raw file cannot be written
NextSave ==
  \/ Quiet /\ nOps = 0 /\ \E srcId \in SourceIds : StartManualRecording(srcId)
  \/ Quiet /\ nOps = 0 /\ \E mode \in AudioModes : StartRecording(mode)
  \/ Quiet /\ nOps = 1 /\ statusRef = "recording" /\ StopManualRecording
  \/ Quiet /\ nOps = 1 /\ audio.isRecordingRef /\ StopRecording
  \/ Quiet /\ \E c \in DOMAIN calls, ok \in BOOLEAN : AcquireDone(c, ok)
  \/ Quiet /\ \E c \in DOMAIN calls : BuildDone(c)
  \/ Quiet /\ \E c \in DOMAIN calls, ok \in BOOLEAN : AudioAcquireDone(c, ok)
  \/ Quiet /\ \E r \in DOMAIN recorders : \E flush \in FlushChoices(r) : StopEvent(r, flush)
  \/ Quiet /\ \E c \in DOMAIN calls : SaveDone(c, FALSE)
  \/ Quiet /\ \E c \in DOMAIN calls : AudioSaveDone(c, FALSE)
  \/ Quiet /\ \E c \in DOMAIN calls : SaveRecordingWritten(c)
  \/ Quiet /\ \E c \in DOMAIN calls, o \in FfmpegOutcomes : SaveRecordingDone(c, o)
  \/ Quiet /\ \E c \in DOMAIN calls : SaveAudioRecordingWritten(c)
  \/ Quiet /\ \E c \in DOMAIN calls, o \in FfmpegOutcomes : SaveAudioRecordingDone(c, o)
  \/ clock < MaxClock /\ PromptSecond
  \/ \E r \in DOMAIN recorders : DataAvailable(r)
  \/ \E t \in 1..nTimers : TimerFire(t)

SpecSave == InitChoice /\ [][NextSave]_vars

\* the save of call c returns in this step
Returns(c, pc) == c \in DOMAIN calls /\ calls[c].pc = pc /\ calls'[c].pc = "done"

\* the temporary files of the main process
TempFiles == {f \in files : f.name \in {"recording.tmp", "audio-temp"}}

\* C19: when the faststart remux fails during a video save, the original
\* un-optimized file still exists at the returned path, no temporary file is
\* left, the save call resolves with that path and onSaved fires for it;
\* onError is not called.
C19_FailedRemuxKeepsOriginal ==
  [][\A c \in DOMAIN calls :
       (Returns(c, "remux") /\ RecordingFile(calls[c].clip, "faststart") \notin files') =>
         /\ RecordingFile(calls[c].clip, "raw") \in files'
         /\ TempFiles' = {}
         /\ onSaved' = Append(onSaved, calls[c].clip)
         /\ onError' = onError]_vars

\* a recording was saved although its remux failed: the raw file is there and
\* onSaved has fired for it
C19_Witness ==
  /\ onSaved = <<1>>
  /\ onError = <<>>
  /\ files = {RecordingFile(1, "raw")}
  /\ statusRef = "idle"
  /\ \A c \in DOMAIN calls : calls[c].pc = "done"

\* C20: when the transcode to MP3 fails, the intermediate capture file is
\* deleted, the save call rejects, the audio recorder reports through onError
\* and does not call onSaved, and it is already back in the not-recording
\* state; when the transcode succeeds the intermediate file is deleted as well.
C20_TranscodeRemovesCapture ==
  [][\A c \in DOMAIN calls :
       Returns(c, "transcode") =>
         /\ AudioTemp(calls[c].clip) \notin files'
         /\ ~audio.isRecordingRef /\ ~audio'.isRecordingRef
         /\ IF AudioFile(calls[c].clip, "mp3") \in files'
            THEN /\ audio'.onSaved = Append(audio.onSaved, calls[c].clip)
                 /\ audio'.onError = audio.onError
            ELSE /\ audio'.onError = Append(audio.onError, "Failed to save audio")
                 /\ audio'.onSaved = audio.onSaved]_vars

\* an audio recording whose transcode failed: reported, nothing saved, the
\* capture file gone, the recorder not recording
C20_Witness ==
  /\ audio.onError = <<"Failed to save audio">>
  /\ audio.onSaved = <<>>
  /\ Len(audio.saveCalls) = 1
  /\ TempFiles = {}
  /\ ~audio.isRecordingRef
  /\ \A c \in DOMAIN calls : calls[c].pc = "done"

----------------------------------------------------------------------------
\* The audio-file handlers of the main process and the AudioTrimmer component

\* handler invocations in one behaviour
MaxIpc == 3
\* trim handle positions the timeline offers
MaxTrim == 1

\* String.prototype.startsWith on the text of two paths
startsWith(p, q) ==
  /\ Len(p) >= Len(q)
  /\ \A i \in 1..(Len(q) - 1) : p[i] = q[i]
  /\ Len(p[Len(q)]) >= Len(q[Len(q)])
  /\ SubSeq(p[Len(q)], 1, Len(q[Len(q)])) = q[Len(q)]

existsSync(d, p) == \E f \in d : f.path = resolve(p)
unlinkSync(d, p) == {f \in d : f.path # resolve(p)}
writeFile(d, p, content) == unlinkSync(d, p) \cup {[path |-> resolve(p), content |-> content]}
readFileSync(d, p) == (CHOOSE f \in d : f.path = resolve(p)).content

\* new Date().toISOString() of the n-th invocation
Timestamp(n) == ToString(n)
\* filePath.replace(/\.mp3$/i, '') followed by _trimmed_<timestamp>.mp3
TrimmedPath(filePath, timestamp) ==
  LET name == filePath[Len(filePath)]
      baseName == IF name[Len(name)] = ".mp3" THEN SubSeq(name, 1, Len(name) - 1) ELSE name
  IN [filePath EXCEPT ![Len(filePath)] = baseName \o <<"_trimmed_", timestamp, ".mp3">>]

\* an invocation of a handler: what it was given, what it touched (paths read,
\* deleted or handed to FFmpeg, as the operating system resolves them) and how
\* it settled
IpcCall(channel, filePath, from) ==
  [channel |-> channel, filePath |-> filePath, from |-> from, trimmedPath |-> <<>>,
   touched |-> {}, settled |-> "pending", value |-> ""]
Resolved(call, value, touched) ==
  [call EXCEPT !.settled = "resolved", !.value = value, !.touched = @ \cup touched]
Threw(call, msg) == [call EXCEPT !.settled = "rejected", !.value = msg]

\* variant: get-audio-duration refuses a path outside the audio folder
getAudioDurationChecked(call) ==
  IF ~startsWith(call.filePath, AudioPath) THEN Resolved(call, "0", {})
  ELSE Resolved(call, "duration", {resolve(call.filePath)})
\* get-audio-duration: the file is handed to FFmpeg; 0 when it cannot be read
getAudioDuration(call) == Resolved(call, "duration", {resolve(call.filePath)})

\* read-audio-file
readAudioFile(d, call) ==
  IF ~startsWith(call.filePath, AudioPath) THEN Resolved(call, "null", {})
  ELSE IF ~existsSync(d, call.filePath) THEN Resolved(call, "null", {})
  ELSE Resolved(call, readFileSync(d, call.filePath), {resolve(call.filePath)})

\* delete-audio-file
DeleteAudioFile(filePath) ==
  /\ Len(ipcCalls) < MaxIpc
  /\ LET call == IpcCall("delete-audio-file", filePath, "")
     IN IF ~startsWith(filePath, AudioPath)
        THEN Commit([St EXCEPT !.ipcCalls = Append(@, Threw(call, "Cannot delete"))])
        ELSE IF existsSync(disk, filePath)
        THEN Commit([St EXCEPT !.disk = unlinkSync(@, filePath),
                               !.ipcCalls = Append(@, Resolved(call, "true",
                                                               {resolve(filePath)}))])
        ELSE Commit([St EXCEPT !.ipcCalls = Append(@, Resolved(call, "false", {}))])

GetAudioDuration(filePath) ==
  /\ Len(ipcCalls) < MaxIpc
  /\ Commit([St EXCEPT !.ipcCalls =
                         Append(@, getAudioDuration(IpcCall("get-audio-duration", filePath, "")))])

ReadAudioFile(filePath) ==
  /\ Len(ipcCalls) < MaxIpc
  /\ Commit([St EXCEPT !.ipcCalls =
                         Append(@, readAudioFile(disk, IpcCall("read-audio-file", filePath, "")))])

\* trim-audio up to its await of FFmpeg
trimAudio(s, filePath, from) ==
  LET call == IpcCall("trim-audio", filePath, from)
  IN IF ~startsWith(filePath, AudioPath)
     THEN [s EXCEPT !.ipcCalls = Append(@, Threw(call, "Cannot trim"))]
     ELSE IF ~existsSync(s.disk, filePath)
     THEN [s EXCEPT !.ipcCalls = Append(@, Threw(call, "Source file not found"))]
     ELSE [s EXCEPT !.ipcCalls =
             Append(@, [call EXCEPT
                          !.trimmedPath = TrimmedPath(filePath, Timestamp(Len(s.ipcCalls) + 1)),
                          !.touched = {resolve(filePath)}])]

TrimAudio(filePath) ==
  /\ Len(ipcCalls) < MaxIpc
  /\ Commit(trimAudio(St, filePath, ""))

\* handleSelectFile of AudioTrimmer, with its two reads of the file
HandleSelectFile(file) ==
  /\ Len(ipcCalls) + 1 < MaxIpc
  /\ file \in trimmer.files
  /\ Commit([St EXCEPT
               !.trimmer.selectedFile = file,
               !.ipcCalls = @ \o <<getAudioDuration(IpcCall("get-audio-duration", file, "trimmer")),
                                   readAudioFile(disk, IpcCall("read-audio-file", file, "trimmer"))>>])

\* handleTrim of AudioTrimmer up to its await
HandleTrim(trimStart, trimEnd) ==
  /\ Len(ipcCalls) < MaxIpc
  /\ trimmer.selectedFile # <<>>
  /\ ~trimmer.trimming
  /\ IF trimStart >= trimEnd
     THEN Commit([St EXCEPT !.trimmer.toast = "Invalid trim range"])
     ELSE Commit(trimAudio([St EXCEPT !.trimmer.trimming = TRUE],
                           trimmer.selectedFile, "trimmer"))

\* variant: a failed trim leaves what FFmpeg wrote
trimAudioSettledKeepsPartial(d, call, outcome) ==
  CASE outcome = "ok" -> writeFile(d, call.trimmedPath, "trimmed")
    [] outcome = "failedWithOutput" -> writeFile(d, call.trimmedPath, "partial")
    [] outcome = "failed" -> d
\* trim-audio after FFmpeg: the files it leaves
trimAudioSettled(d, call, outcome) ==
  CASE outcome = "ok" -> writeFile(d, call.trimmedPath, "trimmed")
    [] outcome = "failedWithOutput" ->
         unlinkSync(writeFile(d, call.trimmedPath, "partial"), call.trimmedPath)
    [] outcome = "failed" -> d

\* FFmpeg settles for the trim of invocation i: the handler returns trimmedPath
\* or throws
TrimAudioSettled(i, outcome) ==
  /\ i \in DOMAIN ipcCalls
  /\ ipcCalls[i].channel = "trim-audio"
  /\ ipcCalls[i].settled = "pending"
  /\ Commit([St EXCEPT
               !.disk = trimAudioSettled(@, ipcCalls[i], outcome),
               !.ipcCalls[i] = IF outcome = "ok"
                               THEN Resolved(@, "trimmedPath", {resolve(@.trimmedPath)})
                               ELSE Threw(@, "Trim failed")])

\* handleTrim after window.api.trimAudio; loadFiles lists the folder again
HandleTrimSettled(i) ==
  /\ i \in DOMAIN ipcCalls
  /\ ipcCalls[i].channel = "trim-audio"
  /\ ipcCalls[i].from = "trimmer"
  /\ ipcCalls[i].settled # "pending"
  /\ Commit([St EXCEPT
               !.ipcCalls[i].from = "trimmer, answered",
               !.trimmer.toast = IF ipcCalls[i].settled = "resolved"
                                 THEN "Saved" ELSE "Trim failed",
               !.trimmer.files = IF ipcCalls[i].settled = "resolved"
                                 THEN ListAudioFiles(disk) ELSE @,
               !.trimmer.trimming = FALSE])

NextAudioFiles ==
  \/ \E p \in Paths : DeleteAudioFile(p)
  \/ \E p \in Paths : GetAudioDuration(p)
  \/ \E p \in Paths : ReadAudioFile(p)
  \/ \E p \in Paths : TrimAudio(p)
  \/ \E f \in trimmer.files : HandleSelectFile(f)
  \/ \E a \in 0..MaxTrim, b \in 0..MaxTrim : HandleTrim(a, b)
  \/ \E i \in DOMAIN ipcCalls, o \in FfmpegOutcomes : TrimAudioSettled(i, o)
  \/ \E i \in DOMAIN ipcCalls : HandleTrimSettled(i)

SpecAudioFiles == Init /\ [][NextAudioFiles]_vars

\* the file at path p, as a set (empty when there is none)
FileAt(d, p) == {f \in d : f.path = resolve(p)}

\* path p is in the folder of path q and is named {base}_trimmed_{timestamp}.mp3
\* after q's {base}.mp3
SiblingNamed(p, q, timestamp) ==
  /\ Len(p) = Len(q)
  /\ SubSeq(p, 1, Len(p) - 1) = SubSeq(q, 1, Len(q) - 1)
  /\ q[Len(q)][Len(q[Len(q)])] = ".mp3"
  /\ p[Len(p)] = SubSeq(q[Len(q)], 1, Len(q[Len(q)]) - 1) \o <<"_trimmed_", timestamp, ".mp3">>

\* C21: when trimming an audio file fails, any partial output file is deleted,
\* the error is propagated to the caller and the source file is left
\* unchanged; when it succeeds a new sibling file {base}_trimmed_{timestamp}.mp3
\* exists and the source file still exists.  Stated for every step in which
\* FFmpeg settles for a trim, and for the step in which the trimmer hears of it.
C21_TrimKeepsSourceCleansPartial ==
  [][\A i \in DOMAIN ipcCalls :
       /\ (ipcCalls[i].channel = "trim-audio" /\ ipcCalls[i].settled = "pending"
             /\ ipcCalls'[i].settled # "pending") =>
            /\ FileAt(disk', ipcCalls[i].filePath) = FileAt(disk, ipcCalls[i].filePath)
            /\ \A f \in disk \cup disk' :
                 f.path # resolve(ipcCalls[i].trimmedPath) => (f \in disk <=> f \in disk')
            /\ SiblingNamed(ipcCalls[i].trimmedPath, ipcCalls[i].filePath, Timestamp(i))
            /\ IF ipcCalls'[i].settled = "resolved"
               THEN FileAt(disk', ipcCalls[i].trimmedPath) =
                      {[path |-> resolve(ipcCalls[i].trimmedPath), content |-> "trimmed"]}
               ELSE /\ FileAt(disk', ipcCalls[i].trimmedPath) = {}
                    /\ ipcCalls'[i].value = "Trim failed"
       /\ (ipcCalls[i].from = "trimmer" /\ ipcCalls'[i].from # "trimmer"
             /\ ipcCalls[i].settled = "rejected") =>
            trimmer'.toast = "Trim failed"]_vars

\* a trim from the trimmer failed after FFmpeg had written part of its output:
\* the trimmer shows the failure, the source is there and the output is not
C21_Witness ==
  /\ trimmer.toast = "Trim failed"
  /\ ~trimmer.trimming
  /\ [path |-> ListedFile, content |-> "mp3"] \in disk
  /\ \E i \in DOMAIN ipcCalls :
       /\ ipcCalls[i].value = "Trim failed"
       /\ ~existsSync(disk, ipcCalls[i].trimmedPath)

\* the paths inside the audio folder
InsideAudioDirectory(p) ==
  /\ Len(p) > Len(AudioPath)
  /\ SubSeq(p, 1, Len(AudioPath)) = AudioPath

\* C22: every audio-file operation that takes a path checks that the path is
\* inside the recordings/audio directory before acting and rejects otherwise:
\* no such operation reads, deletes or hands to the external tool a path outside
\* that directory.
C22_AudioOperationsStayInside ==
  \A i \in DOMAIN ipcCalls : \A p \in ipcCalls[i].touched : InsideAudioDirectory(p)

----------------------------------------------------------------------------
\* The RegionSelector component

\* mouse moves, preset clicks and settings changes in one behaviour
MaxMoves == 3

\* where the mouse can be: the edges and the middle of the screen
MouseX == {0, InnerWidth \div 2, InnerWidth}
MouseY == {0, InnerHeight \div 2, InnerHeight}

\* variant: the snapped box is not clamped to the screen
snapToRatioUnclamped(rs, ratio) ==
  [rs EXCEPT !.sizeRef = [w |-> rs.sizeRef.w, h |-> Over(rs.sizeRef.w, ratio)]]
\* snapToRatio
snapToRatio(rs, ratio) ==
  LET currentW == rs.sizeRef.w
      currentCenterX == Plus(rs.posRef.x, Over(rs.sizeRef.w, Num(2)))
      currentCenterY == Plus(rs.posRef.y, Over(rs.sizeRef.h, Num(2)))
      capH == Times(Num(InnerHeight), Frac(9, 10))
      capW == Times(Num(InnerWidth), Frac(9, 10))
      h0 == Over(currentW, ratio)
      tall == Less(capH, h0)
      h1 == IF tall THEN capH ELSE h0
      w1 == IF tall THEN Times(capH, ratio) ELSE currentW
      wide == Less(capW, w1)
      newW == IF wide THEN capW ELSE w1
      newH == IF wide THEN Over(capW, ratio) ELSE h1
      x0 == MathMax(Num(0), Minus(currentCenterX, Over(newW, Num(2))))
      y0 == MathMax(Num(0), Minus(currentCenterY, Over(newH, Num(2))))
      newX == IF Less(Num(InnerWidth), Plus(x0, newW))
              THEN Minus(Num(InnerWidth), newW) ELSE x0
      newY == IF Less(Num(InnerHeight), Plus(y0, newH))
              THEN Minus(Num(InnerHeight), newH) ELSE y0
  IN [rs EXCEPT !.posRef = [x |-> newX, y |-> newY],
                !.sizeRef = [w |-> newW, h |-> newH]]

\* handlePresetClick, and the props the application passes back after
\* onAspectRatioChange
HandlePresetClick(preset) ==
  /\ regionSelector.nMoves < MaxMoves
  /\ LET ratio == parseRatio(preset)
         rs == [regionSelector EXCEPT !.nMoves = @ + 1]
     IN IF ratio # <<>>
        THEN Commit([St EXCEPT !.regionSelector =
                       [snapToRatio(rs, ratio) EXCEPT !.ratioRef = ratio,
                                                      !.lockAspectRatioRef = TRUE]])
        ELSE Commit([St EXCEPT !.regionSelector =
                       [rs EXCEPT !.ratioRef = Frac(16, 9), !.lockAspectRatioRef = FALSE]])

\* the settings panel toggles Lock Aspect Ratio: the effect of RegionSelector
\* copies the prop into its ref
SetLockAspectRatio ==
  /\ regionSelector.nMoves < MaxMoves
  /\ Commit([St EXCEPT !.regionSelector.lockAspectRatioRef = ~@,
                       !.regionSelector.nMoves = @ + 1])

\* the settings panel selects a preset: the effect of RegionSelector parses it
SetAspectRatio(preset) ==
  /\ regionSelector.nMoves < MaxMoves
  /\ parseRatio(preset) # regionSelector.ratioRef
  /\ Commit([St EXCEPT !.regionSelector.ratioRef = parseRatio(preset),
                       !.regionSelector.nMoves = @ + 1])

\* handleDragStart: the mouse goes down on the border of the box
HandleDragStart ==
  /\ ~regionSelector.isDraggingRef /\ ~regionSelector.isResizingRef
  /\ Commit([St EXCEPT
               !.regionSelector.isDraggingRef = TRUE,
               !.regionSelector.dragStartRef =
                  [mouseX |-> regionSelector.posRef.x, mouseY |-> regionSelector.posRef.y,
                   startX |-> regionSelector.posRef.x, startY |-> regionSelector.posRef.y]])

\* the place of a corner handle
CornerAt(rs, corner) ==
  [x |-> IF corner \in {"top-left", "bottom-left"} THEN rs.posRef.x
         ELSE Plus(rs.posRef.x, rs.sizeRef.w),
   y |-> IF corner \in {"top-left", "top-right"} THEN rs.posRef.y
         ELSE Plus(rs.posRef.y, rs.sizeRef.h)]

\* handleResizeStart: the mouse goes down on a corner handle
HandleResizeStart(corner) ==
  /\ ~regionSelector.isDraggingRef /\ ~regionSelector.isResizingRef
  /\ Commit([St EXCEPT
               !.regionSelector.isResizingRef = TRUE,
               !.regionSelector.resizeCornerRef = corner,
               !.regionSelector.resizeStartRef =
                  [mouseX |-> CornerAt(regionSelector, corner).x,
                   mouseY |-> CornerAt(regionSelector, corner).y,
                   startX |-> regionSelector.posRef.x, startY |-> regionSelector.posRef.y,
                   startW |-> regionSelector.sizeRef.w, startH |-> regionSelector.sizeRef.h]])

\* handleMouseMove while dragging
dragMove(rs, clientX, clientY) ==
  LET dx == Minus(clientX, rs.dragStartRef.mouseX)
      dy == Minus(clientY, rs.dragStartRef.mouseY)
      newX == MathMax(Num(0), MathMin(Minus(Num(InnerWidth), rs.sizeRef.w),
                                      Plus(rs.dragStartRef.startX, dx)))
      newY == MathMax(Num(0), MathMin(Minus(Num(InnerHeight), rs.sizeRef.h),
                                      Plus(rs.dragStartRef.startY, dy)))
  IN [rs EXCEPT !.posRef = [x |-> newX, y |-> newY]]

\* handleMouseMove while resizing: the box before it is clamped to the screen
resized(rs, clientX, clientY) ==
  LET dx == Minus(clientX, rs.resizeStartRef.mouseX)
      dy == Minus(clientY, rs.resizeStartRef.mouseY)
      corner == rs.resizeCornerRef
      start == rs.resizeStartRef
      left == corner \in {"bottom-left", "top-left"}
      top == corner \in {"top-right", "top-left"}
      newW == MathMax(Num(minSize), IF left THEN Minus(start.startW, dx)
                                    ELSE Plus(start.startW, dx))
      newH == IF rs.lockAspectRatioRef THEN Over(newW, rs.ratioRef)
              ELSE MathMax(Num(minSize), IF top THEN Minus(start.startH, dy)
                                         ELSE Plus(start.startH, dy))
  IN [w |-> newW, h |-> newH,
      x |-> IF left THEN Plus(start.startX, Minus(start.startW, newW)) ELSE start.startX,
      y |-> IF top THEN Plus(start.startY, Minus(start.startH, newH)) ELSE start.startY]

\* variant: the resized box is not clamped to the screen
resizeMoveUnclamped(rs, clientX, clientY) ==
  LET b == resized(rs, clientX, clientY)
  IN [rs EXCEPT !.posRef = [x |-> b.x, y |-> b.y], !.sizeRef = [w |-> b.w, h |-> b.h]]
\* handleMouseMove while resizing
resizeMove(rs, clientX, clientY) ==
  LET b == resized(rs, clientX, clientY)
      locked == rs.lockAspectRatioRef
      ratio == rs.ratioRef
      newX == MathMax(Num(0), b.x)
      newY == MathMax(Num(0), b.y)
      overW == Less(Num(InnerWidth), Plus(newX, b.w))
      w1 == IF overW THEN Minus(Num(InnerWidth), newX) ELSE b.w
      h1 == IF overW /\ locked THEN Over(w1, ratio) ELSE b.h
      overH == Less(Num(InnerHeight), Plus(newY, h1))
      newH == IF overH THEN Minus(Num(InnerHeight), newY) ELSE h1
      newW == IF overH /\ locked THEN Times(newH, ratio) ELSE w1
  IN [rs EXCEPT !.posRef = [x |-> newX, y |-> newY],
                !.sizeRef = [w |-> newW, h |-> newH]]

\* handleMouseMove
HandleMouseMove(clientX, clientY) ==
  /\ regionSelector.nMoves < MaxMoves
  /\ regionSelector.isDraggingRef \/ regionSelector.isResizingRef
  /\ LET rs == [regionSelector EXCEPT !.nMoves = @ + 1]
     IN IF rs.isDraggingRef
        THEN Commit([St EXCEPT !.regionSelector = dragMove(rs, Num(clientX), Num(clientY))])
        ELSE Commit([St EXCEPT !.regionSelector = resizeMove(rs, Num(clientX), Num(clientY))])

\* handleMouseUp
HandleMouseUp ==
  /\ regionSelector.isDraggingRef \/ regionSelector.isResizingRef
  /\ Commit([St EXCEPT !.regionSelector.isDraggingRef = FALSE,
                       !.regionSelector.isResizingRef = FALSE,
                       !.regionSelector.resizeCornerRef = ""])

NextRegionSelector ==
  \/ \E preset \in RATIO_PRESETS : HandlePresetClick(preset)
  \/ SetLockAspectRatio
  \/ \E preset \in ASPECT_PRESETS : SetAspectRatio(preset)
  \/ HandleDragStart
  \/ \E corner \in Corners : HandleResizeStart(corner)
  \/ \E x \in MouseX, y \in MouseY : HandleMouseMove(x, y)
  \/ HandleMouseUp

SpecRegionSelector == Init /\ [][NextRegionSelector]_vars

\* C23: after any sequence of drags, corner resizes (locked or free) and
\* aspect-ratio preset snaps, the region bounds satisfy w > 0, h > 0, x >= 0,
\* y >= 0, x + w <= display width and y + h <= display height.
C23_RegionInsideDisplay ==
  /\ Less(Num(0), regionSelector.sizeRef.w)
  /\ Less(Num(0), regionSelector.sizeRef.h)
  /\ ~Less(regionSelector.posRef.x, Num(0))
  /\ ~Less(regionSelector.posRef.y, Num(0))
  /\ ~Less(Num(InnerWidth), Plus(regionSelector.posRef.x, regionSelector.sizeRef.w))
  /\ ~Less(Num(InnerHeight), Plus(regionSelector.posRef.y, regionSelector.sizeRef.h))

\* a locked resize was cut at the edge of the screen: the box fills the height
\* of the screen in a portrait ratio
C23_Witness ==
  /\ regionSelector.lockAspectRatioRef
  /\ regionSelector.ratioRef = Frac(9, 16)
  /\ regionSelector.isResizingRef
  /\ regionSelector.posRef.y = Num(0)
  /\ regionSelector.sizeRef.h = Num(InnerHeight)

----------------------------------------------------------------------------
\* The application's Lock Aspect Ratio and Crop button

\* the bounds RegionSelector reports through onChange when it mounts: the saved
\* ones, or the default box in whole pixels
MountedBounds(o) ==
  IF o.regionBoundsRef # <<>> THEN o.regionBoundsRef
  ELSE LET size == InitialBox(Frac(o.aspectRatioPresetRef[1], o.aspectRatioPresetRef[2])).size
       IN <<size.w[1] \div size.w[2], size.h[1] \div size.h[2]>>

\* loadSettings after the settings panel closed with Lock Aspect Ratio changed:
\* the props reach the refs of the hook and the effect restarts a running buffer
LoadSettings ==
  /\ nOps < MaxOps
  /\ LET s1 == [St EXCEPT !.optionRefs.customAspectRatioRef = ~@,
                          !.optionRefs.regionBoxEnabledRef = ~@]
     IN IF statusRef = "buffering"
        THEN Commit(restartBuffering(s1))
        ELSE Commit(s1)

\* handleToggleRegionBox; a box that becomes visible mounts RegionSelector, which
\* reports its bounds, and the effect restarts a running buffer when these are
\* the first bounds and Lock Aspect Ratio is on
HandleToggleRegionBox ==
  /\ nOps < MaxOps
  /\ LET next == ~regionBoxVisible
         s1 == [St EXCEPT !.regionBoxVisible = next]
         s2 == [s1 EXCEPT !.optionRefs.regionBoundsRef = MountedBounds(optionRefs)]
     IN IF next /\ statusRef # "recording"
        THEN IF optionRefs.regionBoundsRef = <<>> /\ optionRefs.customAspectRatioRef
                  /\ statusRef = "buffering"
             THEN Commit(restartBuffering(s2))
             ELSE Commit(s2)
        ELSE Commit(s1)

NextCrop ==
  \/ Quiet /\ nOps = 0 /\ \E srcId \in SourceIds : StartBuffering(srcId)
  \/ Quiet /\ nOps = 0 /\ \E srcId \in SourceIds : StartManualRecording(srcId)
  \/ Quiet /\ LoadSettings
  \/ Quiet /\ HandleToggleRegionBox
  \/ Quiet /\ \E c \in DOMAIN calls : AcquireDone(c, TRUE)
  \/ Quiet /\ \E c \in DOMAIN calls : BuildDone(c)
  \/ Quiet /\ \E r \in DOMAIN recorders : \E flush \in FlushChoices(r) : StopEvent(r, flush)
  \/ clock < MaxClock /\ PromptSecond
  \/ \E r \in DOMAIN recorders : DataAvailable(r)
  \/ \E t \in 1..nTimers : TimerFire(t)

SpecCrop == Init /\ [][NextCrop]_vars

\* call c gets its desktop stream in this step, which decides its pipeline
PipelineChosen(c) == c \in DOMAIN calls /\ calls[c].desktop = 0 /\ calls'[c].desktop # 0

\* C24: when Lock Aspect Ratio is on, every recording that is started goes
\* through the region cropper; when it is off, recordings are full-screen; and
\* toggling the Crop button alone never changes which of the two pipelines a
\* recording would use.
C24_LockDecidesPipeline ==
  [][/\ \A c \in DOMAIN calls :
          PipelineChosen(c) => (calls'[c].cropped <=> optionRefs.customAspectRatioRef)
     /\ regionBoxVisible' # regionBoxVisible =>
          (buildStreamCropped(optionRefs') <=> buildStreamCropped(optionRefs))]_vars

----------------------------------------------------------------------------
\* C25: while Buffering, the rotation counter satisfies
\* 0 <= secondsSinceRotation <= rotationPeriod; it is reset to 0 by every
\* rotation, grows by exactly 1 per elapsed second, and a rotation is triggered
\* when it reaches rotationPeriod.
C25_CounterWithinPeriod ==
  statusRef = "buffering" => (0 <= bufferElapsedRef /\ bufferElapsedRef <= bufferLengthRef)

\* seconds simulated by the counter scenario
CounterClock == 6

\* buffering starts and saveClip is called once, at any second; no stop event is
\* left pending across a second
NextCounter ==
  \/ Scripted(<<"startBuffering", "saveClip">>)
  \/ Quiet /\ \E c \in DOMAIN calls : AcquireDone(c, TRUE)
  \/ Quiet /\ \E c \in DOMAIN calls : BuildDone(c)
  \/ Quiet /\ \E c \in DOMAIN calls : SaveDone(c, TRUE)
  \/ Quiet /\ \E r \in DOMAIN recorders : \E flush \in FlushChoices(r) : StopEvent(r, flush)
  \/ clock < CounterClock /\ PromptSecond
  \/ \E r \in DOMAIN recorders : DataAvailable(r)
  \/ \E t \in 1..nTimers : TimerFire(t)

SpecCounter == Init /\ [][NextCounter]_vars

----------------------------------------------------------------------------
\* The saved-prompt handlers of the main process

\* the latest time a handler is called at
MaxNow == 4
\* ids and titles the renderer submits
PromptIds == {"1", "2"}
Titles == {"Old", "New"}

\* Array.prototype.findIndex by id; 0 when there is none
findIndex(prompts, id) ==
  IF \E i \in DOMAIN prompts : prompts[i].id = id
  THEN CHOOSE i \in DOMAIN prompts : /\ prompts[i].id = id
                                     /\ \A j \in 1..(i - 1) : prompts[j].id # id
  ELSE 0

\* prompts.sort((a, b) => b.updatedAt - a.updatedAt): a stable insertion of each
\* element after the elements that are not older than it
RECURSIVE sortByUpdatedAtDesc(_)
sortByUpdatedAtDesc(prompts) ==
  IF prompts = <<>> THEN <<>>
  ELSE LET rest == sortByUpdatedAtDesc(SubSeq(prompts, 1, Len(prompts) - 1))
           last == prompts[Len(prompts)]
           k == Cardinality({i \in DOMAIN rest : rest[i].updatedAt >= last.updatedAt})
       IN SubSeq(rest, 1, k) \o <<last>> \o SubSeq(rest, k + 1, Len(rest))

\* the list after the handler's update or push, before its sort
saveSavedPromptPlaced(prompts, prompt, now) ==
  LET index == findIndex(prompts, prompt.id)
  IN IF index # 0
     THEN [prompts EXCEPT ![index] = [prompt EXCEPT !.updatedAt = now]]
     ELSE Append(prompts, [prompt EXCEPT !.createdAt = now, !.updatedAt = now])

\* variant: the list is stored without the sort
saveSavedPromptUnsorted(prompts, prompt, now) == saveSavedPromptPlaced(prompts, prompt, now)
\* variant: the prompt is always pushed
saveSavedPromptPushes(prompts, prompt, now) ==
  sortByUpdatedAtDesc(Append(prompts, [prompt EXCEPT !.createdAt = now, !.updatedAt = now]))
\* save-saved-prompt: the list it stores
saveSavedPrompt(prompts, prompt, now) ==
  sortByUpdatedAtDesc(saveSavedPromptPlaced(prompts, prompt, now))

\* delete-saved-prompt: the list it stores
deleteSavedPrompt(prompts, id) == SelectSeq(prompts, LAMBDA p : p.id # id)

\* an invocation of a saved-prompt handler
PromptCall(channel, prompt) ==
  [channel |-> channel, prompt |-> prompt, touched |-> {}, settled |-> "resolved",
   value |-> "true"]

\* the prompts the renderer submits: a new one (its times are overwritten), or a
\* stored one with a new title
Submitted ==
  {[id |-> id, title |-> title, createdAt |-> 0, updatedAt |-> 0] :
     id \in PromptIds, title \in Titles}
  \cup {[savedPrompts[i] EXCEPT !.title = title] : i \in DOMAIN savedPrompts, title \in Titles}

\* save-saved-prompt, called at time now
SaveSavedPrompt(prompt, now) ==
  /\ Len(ipcCalls) < MaxIpc
  /\ now > dateNow
  /\ Commit([St EXCEPT !.savedPrompts = saveSavedPrompt(@, prompt, now),
                       !.dateNow = now,
                       !.ipcCalls = Append(@, PromptCall("save-saved-prompt", prompt))])

\* delete-saved-prompt
DeleteSavedPrompt(id) ==
  /\ Len(ipcCalls) < MaxIpc
  /\ Commit([St EXCEPT !.savedPrompts = deleteSavedPrompt(@, id),
                       !.ipcCalls = Append(@, PromptCall("delete-saved-prompt",
                                                         [id |-> id]))])

NextPrompts ==
  \/ \E prompt \in Submitted, now \in 1..MaxNow : SaveSavedPrompt(prompt, now)
  \/ \E id \in PromptIds : DeleteSavedPrompt(id)

SpecPrompts == Init /\ [][NextPrompts]_vars

\* the handler call of this step, when there is one
Handled(channel) ==
  /\ Len(ipcCalls') = Len(ipcCalls) + 1
  /\ ipcCalls'[Len(ipcCalls')].channel = channel
Request == ipcCalls'[Len(ipcCalls')].prompt

\* C26: after every save-saved-prompt call the stored list is ordered by
\* updatedAt descending, and the prompt just created or updated is first; this
\* holds after any sequence of saves and deletes.
C26_SortedNewestFirst ==
  [][/\ \A i, j \in DOMAIN savedPrompts' :
          i < j => savedPrompts'[i].updatedAt >= savedPrompts'[j].updatedAt
     /\ Handled("save-saved-prompt") =>
          /\ savedPrompts'[1].id = Request.id
          /\ savedPrompts'[1].updatedAt = dateNow']_vars

\* a prompt saved earlier was updated and moved in front of a newer one
C26_Witness ==
  /\ Len(savedPrompts) = 2
  /\ savedPrompts[1].createdAt < savedPrompts[2].createdAt
  /\ savedPrompts[1].updatedAt > savedPrompts[2].updatedAt

Range(f) == {f[i] : i \in DOMAIN f}

\* the entries of the list with the given id
WithId(prompts, id) == {i \in DOMAIN prompts : prompts[i].id = id}

\* C27: no two stored prompts share an id: saving a prompt whose id is already
\* stored replaces that entry (list length unchanged, updatedAt set to the
\* current time, createdAt kept as submitted), saving a new id adds exactly one
\* entry with createdAt = updatedAt = current time, and deleting an id removes
\* exactly the entries with that id.
C27_IdsUnique ==
  [][/\ \A i, j \in DOMAIN savedPrompts' :
          savedPrompts'[i].id = savedPrompts'[j].id => i = j
     /\ (Handled("save-saved-prompt") /\ WithId(savedPrompts, Request.id) # {}) =>
          /\ Len(savedPrompts') = Len(savedPrompts)
          /\ \E i \in DOMAIN savedPrompts' :
               savedPrompts'[i] = [Request EXCEPT !.updatedAt = dateNow']
          /\ \A p \in Range(savedPrompts) :
               p.id # Request.id => p \in Range(savedPrompts')
     /\ (Handled("save-saved-prompt") /\ WithId(savedPrompts, Request.id) = {}) =>
          /\ Len(savedPrompts') = Len(savedPrompts) + 1
          /\ \E i \in DOMAIN savedPrompts' :
               savedPrompts'[i] = [Request EXCEPT !.createdAt = dateNow',
                                                  !.updatedAt = dateNow']
          /\ \A p \in Range(savedPrompts) : p \in Range(savedPrompts')
     /\ Handled("delete-saved-prompt") =>
          /\ WithId(savedPrompts', Request.id) = {}
          /\ savedPrompts' = SelectSeq(savedPrompts, LAMBDA p : p.id # Request.id)]_vars

\* a stored prompt was replaced by a save with its id, next to another prompt
C27_Witness ==
  /\ Len(savedPrompts) = 2
  /\ \E i \in DOMAIN savedPrompts :
       /\ savedPrompts[i].createdAt < savedPrompts[i].updatedAt
       /\ savedPrompts[i].title = "New"

----------------------------------------------------------------------------
\* The hotkeys of the Settings component

\* hotkey changes in one behaviour
MaxChanges == 3
\* the accelerators HotkeyRecorder reports
Accelerators == {"Alt+S", "Alt+Shift+S", "Alt+V", "Alt+C", "CommandOrControl+Shift+X"}

\* variant: the hotkey is stored without the conflict check
handleHotkeyChangeUnchecked(panel, key, value) ==
  [panel EXCEPT !.error = "",
                !.settings[key] = value,
                !.saveSettings = Append(@, [panel.settings EXCEPT ![key] = value])]
\* handleHotkeyChange
handleHotkeyChange(panel, key, value) ==
  IF \E k \in hotkeyKeys \ {key} : panel.settings[k] = value
  THEN [panel EXCEPT !.error = "Cannot use the same hotkey for multiple actions!"]
  ELSE [panel EXCEPT !.error = "",
                     !.settings[key] = value,
                     !.saveSettings = Append(@, [panel.settings EXCEPT ![key] = value])]

\* HotkeyRecorder reports a new accelerator for a key
HandleHotkeyChange(key, value) ==
  /\ Len(settingsPanel.changes) < MaxChanges
  /\ Commit([St EXCEPT !.settingsPanel =
                         [handleHotkeyChange(@, key, value) EXCEPT
                            !.changes = Append(@, <<key, value>>)]])

NextSettingsPanel ==
  \E key \in hotkeyKeys, value \in Accelerators : HandleHotkeyChange(key, value)

SpecSettingsPanel == Init /\ [][NextSettingsPanel]_vars

\* the change reported in this step
Changed == settingsPanel'.changes[Len(settingsPanel'.changes)]
\* the value is bound to another action
Conflicts(settings, change) ==
  \E k \in hotkeyKeys \ {change[1]} : settings[k] = change[2]

\* C28: a hotkey change whose value is already bound to another action is
\* rejected: an error is shown, the settings are unchanged and saveSettings is
\* not called; consequently, starting from pairwise distinct hotkeys, no two
\* actions ever share the same hotkey.
C28_ConflictingHotkeyRejected ==
  [][/\ \A k1, k2 \in hotkeyKeys :
          settingsPanel'.settings[k1] = settingsPanel'.settings[k2] => k1 = k2
     /\ (settingsPanel'.changes # settingsPanel.changes
           /\ Conflicts(settingsPanel.settings, Changed)) =>
          /\ settingsPanel'.error # ""
          /\ settingsPanel'.settings = settingsPanel.settings
          /\ settingsPanel'.saveSettings = settingsPanel.saveSettings]_vars

\* a change was accepted and the next one, to the hotkey given up by the
\* first, as well; a conflicting one was then refused
C28_Witness ==
  /\ settingsPanel.error # ""
  /\ Len(settingsPanel.saveSettings) = 2
  /\ Len(settingsPanel.changes) = 3
  /\ settingsPanel.settings.snipHotkey = "Alt+S"

----------------------------------------------------------------------------
\* the stop event of recorder r resumes a saveClip that finds its clip empty
EmptyBufferCondition(r) ==
  /\ recorders[r].onstop.kind = "resolve"
  /\ calls[recorders[r].onstop.call].op = "saveClip"
  /\ chunksRef = <<>>
  /\ StopEvent(r, FALSE)

\* C29: after the empty-buffer condition in saveClip, buffering is restarted
\* rather than left broken: the status is still Buffering, a recorder is running
\* on the stream, completedChunks is empty, the rotation counter is 0 and
\* exactly one rotation timer is running.
C29_EmptyBufferRestarts ==
  [][\A r \in DOMAIN recorders :
       EmptyBufferCondition(r) =>
         /\ statusRef' = "buffering"
         /\ mediaRecorderRef' \in DOMAIN recorders'
         /\ mediaRecorderRef' # r
         /\ recorders'[mediaRecorderRef'].state = "recording"
         /\ recorders'[mediaRecorderRef'].stream = streamRef'
         /\ streamRef' \in liveStreams'
         /\ completedChunksRef' = <<>>
         /\ bufferElapsedRef' = 0
         /\ Cardinality({i \in intervals' : i.kind = "rotation"}) = 1
         /\ \E i \in intervals' : i.kind = "rotation" /\ i.id = rotationTimerRef']_vars

\* buffering runs again after the empty-buffer error, on a second recorder
C29_Witness ==
  /\ onError = <<"Buffer is empty, nothing to clip">>
  /\ BufferingRuns
  /\ Len(recorders) = 2
  /\ chunksRef # <<>>

----------------------------------------------------------------------------
\* stopBuffering and saveClip after one startBuffering, in any order

\* hook functions invoked in the scenario
DiscardOps == 3

NextDiscard ==
  \/ Scripted(<<"startBuffering">>)
  \/ Quiet /\ nOps \in 1..(DiscardOps - 1) /\ StopBuffering
  \/ Quiet /\ nOps \in 1..(DiscardOps - 1) /\ SaveClip
  \/ Quiet /\ \E c \in DOMAIN calls : AcquireDone(c, TRUE)
  \/ Quiet /\ \E c \in DOMAIN calls : BuildDone(c)
  \/ Quiet /\ \E c \in DOMAIN calls, ok \in BOOLEAN : SaveDone(c, ok)
  \/ Quiet /\ \E r \in DOMAIN recorders : \E flush \in FlushChoices(r) : StopEvent(r, flush)
  \/ clock < MaxClock /\ Second
  \/ \E r \in DOMAIN recorders : DataAvailable(r)
  \/ \E t \in 1..nTimers : TimerFire(t)

SpecDiscard == Init /\ [][NextDiscard]_vars

\* the stop event of recorder r runs the handler stopBuffering installed
StopBufferingStopEvent(r) ==
  /\ recorders[r].onstop.kind = "stopBuffering"
  /\ \E flush \in FlushChoices(r) : StopEvent(r, flush)

\* the chunks of the k-th payload handed to window.api.saveRecording
Handed(k) == {saveCalls[k].chunks[i] : i \in DOMAIN saveCalls[k].chunks}

\* C30: stopBuffering discards all data: the stop event of an accepted
\* stopBuffering leaves chunksRef and completedChunksRef empty and fires
\* neither onSaved nor onError, and no chunk of the stopped buffer (one the
\* lists held at the call or one the stopped recorder produced) is handed to
\* the file save after the call.
C30_StopBufferingDiscards ==
  /\ [][\A r \in DOMAIN recorders :
          StopBufferingStopEvent(r) =>
            /\ chunksRef' = <<>>
            /\ completedChunksRef' = <<>>
            /\ saveCalls' = saveCalls
            /\ onSaved' = onSaved
            /\ onError' = onError]_vars
  /\ [](\A b \in stoppedBuffers : \A k \in DOMAIN saveCalls :
          k > b.saves =>
            \A chunk \in Handed(k) : chunk[1] # b.recorder /\ chunk \notin b.held)

----------------------------------------------------------------------------
\* Rotation

\* recorder r was stopped by a rotateBuffer call that waits for its stop event
Rotating(r) ==
  /\ recorders[r].stopQueued
  /\ recorders[r].onstop.kind = "resolve"
  /\ calls[recorders[r].onstop.call].op = "rotateBuffer"

\* the stop event of recorder r resumes the rotateBuffer call that stopped it
RotationResumes(r) ==
  /\ Rotating(r)
  /\ \E flush \in FlushChoices(r) : StopEvent(r, flush)

\* C31: a rotation never leaves the Buffering status and never releases or
\* re-acquires the stream: while it waits for the stop event, and after it has
\* resumed, the status is Buffering and streamRef is the live stream the
\* rotation began with; no stream is acquired or released by the resumption;
\* the new session records on that stream; completedChunks afterwards is the
\* chunk list of the session just stopped.
C31_RotationKeepsStream ==
  /\ [](\A r \in DOMAIN recorders :
          Rotating(r) =>
            /\ statusRef = "buffering"
            /\ streamRef = calls[recorders[r].onstop.call].stream
            /\ streamRef \in liveStreams)
  /\ [][\A r \in DOMAIN recorders :
          RotationResumes(r) =>
            /\ statusRef' = "buffering"
            /\ streamRef' = streamRef
            /\ liveStreams' = liveStreams
            /\ nStreams' = nStreams
            /\ mediaRecorderRef' = Len(recorders) + 1
            /\ recorders'[mediaRecorderRef'].state = "recording"
            /\ recorders'[mediaRecorderRef'].stream = streamRef
            /\ completedChunksRef' = [k \in 1..recorders'[r].n |-> <<r, k>>]]_vars

----------------------------------------------------------------------------
\* Rotation with slow stop events: a stop event may stay pending across a second

\* seconds simulated by the scenario
TickClock == 14

NextRotationTick ==
  \/ Scripted(<<"startBuffering">>)
  \/ Quiet /\ \E c \in DOMAIN calls : AcquireDone(c, TRUE)
  \/ Quiet /\ \E c \in DOMAIN calls : BuildDone(c)
  \/ Quiet /\ \E r \in DOMAIN recorders : \E flush \in FlushChoices(r) : StopEvent(r, flush)
  \/ clock < TickClock /\ Second
  \/ \E r \in DOMAIN recorders : DataAvailable(r)
  \/ \E t \in 1..nTimers : TimerFire(t)

SpecRotationTick == Init /\ [][NextRotationTick]_vars

\* the recorders that rotateBuffer calls have started
StartedByRotation(rs, cs) ==
  {q \in DOMAIN rs : cs[rs[q].by].op = "rotateBuffer"}

\* C32: a rotation stops before it starts: every recorder but the newest is
\* inactive and has had its stop event, so at most one recorder is active; a
\* recorder is started by a rotation only in the step that delivers the stop
\* event of the recorder the rotation stopped, with all chunks of that recorder,
\* the final one included, collected in completedChunks; a rotation tick that
\* fires while a rotation waits for the stop event starts no recorder, and each
\* stopped session is followed by one new recorder only.
C32_StopBeforeStart ==
  /\ [](/\ \A r \in DOMAIN recorders :
             r < Len(recorders) =>
               recorders[r].state = "inactive" /\ ~recorders[r].stopQueued
        /\ Cardinality(Recording) <= 1
        /\ Cardinality(StartedByRotation(recorders, calls)) = Len(recorders) - 1
             \/ recorders = <<>>)
  /\ [][/\ Len(recorders') <= Len(recorders) + 1
        /\ StartedByRotation(recorders', calls') # StartedByRotation(recorders, calls) =>
             \E r \in DOMAIN recorders :
               /\ Rotating(r)
               /\ ~recorders'[r].stopQueued
               /\ recorders'[r].state = "inactive"
               /\ completedChunksRef' = [k \in 1..recorders'[r].n |-> <<r, k>>]
               /\ mediaRecorderRef' = Len(recorders) + 1
        /\ (\E r \in DOMAIN recorders : Rotating(r)) /\ (\E t \in 1..nTimers : TimerFire(t)) =>
             recorders' = [r \in DOMAIN recorders |->
                             [recorders[r] EXCEPT !.onstop = recorders'[r].onstop]]]_vars

\* a tick has called rotateBuffer again while the first call was waiting; the
\* stop event has then started one recorder
C32_Witness ==
  /\ \E c \in DOMAIN calls :
       /\ calls[c].op = "rotateBuffer"
       /\ calls[c].pc = "stop"
       /\ ~recorders[calls[c].recorder].stopQueued
  /\ Len(recorders) = 2
  /\ mediaRecorderRef = 2
  /\ recorders[2].state = "recording"
  /\ completedChunksRef = ChunksOf(1)

----------------------------------------------------------------------------
\* restartBuffering

\* call c is a restartBuffering call suspended at one of the awaits pcs
Restarting(c, pcs) == calls[c].op = "restartBuffering" /\ calls[c].pc \in pcs

RotationTimers(is) == {i \in is : i.kind = "rotation"}

----------------------------------------------------------------------------
\* The AudioContext of the screen recorder, with every option combination

\* two saveClip calls after startBuffering
SpecMix == InitChoice /\ [][NextDoubleSave]_vars

\* call c has acquired its desktop stream and buildStream resolves in this step
Builds(c) ==
  /\ calls[c].pc = "build"
  /\ calls'[c].pc = "done"
  /\ nStreams' >= nStreams
  /\ streamRef' = calls[c].desktop \/ canvasRef' # <<>>

\* C34: an AudioContext exists only while a desktop audio source and a
\* microphone are both part of the live stream: at most one is open at any
\* time, the one audioContextRef holds; while one is open the stream and the
\* microphone it mixes are live and system audio is enabled; a build creates
\* one exactly when the desktop stream carries audio and the microphone was
\* acquired; with no stream held, none is open.
C34_AudioContextOnlyForTwoSources ==
  /\ [](/\ audioContexts <= 1
        /\ audioContextRef <=> audioContexts = 1
        /\ audioContextRef =>
             /\ optionRefs.systemAudioEnabledRef
             /\ micStreamRef \in liveStreams
             /\ streamRef \in liveStreams
        /\ streamRef = 0 => audioContexts = 0)
  /\ [][\A c \in DOMAIN calls :
          Builds(c) =>
            /\ audioContexts' - audioContexts \in {0, 1}
            /\ audioContexts' = audioContexts + 1 <=>
                 (calls[c].request[1].audio /\ micStreamRef' # 0)]_vars

----------------------------------------------------------------------------
\* The frame loop of the cropper and live updates of the region

\* the regions the user moves the box to
BoundsChoices == {<<RegionW, RegionH>>, <<RegionW + 2, RegionH + 2>>}

\* requestAnimationFrame calls drawFrame of cropper k
DrawFrame(k) ==
  /\ k \in DOMAIN croppers
  /\ croppers[k].loop
  /\ Commit([St EXCEPT !.croppers[k].drawn = drawFrame(St, croppers[k].region),
                        !.croppers[k].frames = (@ + 1) % 2])

\* RegionSelector's onChange: saveRegionBounds sets the bounds, the prop reaches
\* regionBoundsRef, and the effect restarts a running buffer when these are the
\* first bounds and Lock Aspect Ratio is on
SaveRegionBounds(bounds) ==
  LET s1 == [St EXCEPT !.optionRefs.regionBoundsRef = bounds]
  IN IF optionRefs.regionBoundsRef = <<>> /\ optionRefs.customAspectRatioRef
          /\ statusRef = "buffering"
     THEN Commit(restartBuffering(s1))
     ELSE Commit(s1)

NextFrames ==
  \/ Quiet /\ nOps = 0 /\ \E srcId \in SourceIds : StartBuffering(srcId)
  \/ Quiet /\ nOps = 0 /\ \E srcId \in SourceIds : StartManualRecording(srcId)
  \/ Quiet /\ \E bounds \in BoundsChoices : SaveRegionBounds(bounds)
  \/ \E k \in DOMAIN croppers : DrawFrame(k)
  \/ Quiet /\ \E c \in DOMAIN calls : AcquireDone(c, TRUE)
  \/ Quiet /\ \E c \in DOMAIN calls : BuildDone(c)
  \/ Quiet /\ \E c \in DOMAIN calls : PauseDone(c)
  \/ Quiet /\ \E r \in DOMAIN recorders : \E flush \in FlushChoices(r) : StopEvent(r, flush)
  \/ clock < MaxClock /\ PromptSecond
  \/ \E r \in DOMAIN recorders : DataAvailable(r)
  \/ \E t \in 1..nTimers : TimerFire(t)

SpecFrames == InitChoice /\ [][NextFrames]_vars

\* the cropper of the current stream
CroppingActive == canvasRef # <<>> /\ animFrameRef \in DOMAIN croppers

\* C35: while cropping is active, every frame is drawn with the bounds
\* regionBoundsRef holds at that moment, not with the bounds the cropper was
\* built with, and an update of the bounds changes nothing but the bounds: no
\* recorder, stream, timer, call or status changes.
C35_FramesUseCurrentBounds ==
  [][/\ CroppingActive /\ DrawFrame(animFrameRef) =>
          /\ optionRefs.regionBoundsRef # <<>>
          /\ croppers'[animFrameRef].drawn = optionRefs.regionBoundsRef
     /\ CroppingActive /\ optionRefs'.regionBoundsRef # optionRefs.regionBoundsRef =>
          /\ recorders' = recorders
          /\ calls' = calls
          /\ liveStreams' = liveStreams
          /\ nStreams' = nStreams
          /\ intervals' = intervals
          /\ statusRef' = statusRef
          /\ streamRef' = streamRef
          /\ mediaRecorderRef' = mediaRecorderRef
          /\ canvasRef' = canvasRef
          /\ animFrameRef' = animFrameRef]_vars

\* the region was moved while the cropped buffer ran and a frame was drawn with
\* the new bounds; the first recorder is still the one that records
C35_Witness ==
  /\ CroppingActive
  /\ statusRef = "buffering"
  /\ optionRefs.regionBoundsRef # croppers[animFrameRef].region
  /\ croppers[animFrameRef].drawn = optionRefs.regionBoundsRef
  /\ croppers[animFrameRef].frames = 0
  /\ Len(recorders) = 1
  /\ recorders[1].state = "recording"
  /\ recorders[1].n > 0

----------------------------------------------------------------------------
\* The resources of the cropper

\* a buildStream call is between its acquisition and its result
Building == \E c \in DOMAIN calls : calls[c].pc = "build"

\* C36: the frame loop, the off-screen video and the raw desktop stream of a
\* cropper are live together and released together: outside a build in
\* progress, every cropper has its loop running exactly when its video is
\* attached and exactly when its raw stream is live; the raw stream the hook
\* holds is the one of the cropper whose loop and video it holds; and only the
\* current cropper is live, so a replaced or stopped cropper has all three
\* released.
C36_CropperTornDownTogether ==
  ~Building =>
    /\ \A k \in DOMAIN croppers :
         /\ croppers[k].loop <=> croppers[k].video
         /\ croppers[k].loop <=> croppers[k].raw \in liveStreams
         /\ croppers[k].loop => k = animFrameRef
    /\ animFrameRef = offscreenVideoRef
    /\ rawDesktopStreamRef # 0 <=> animFrameRef # 0
    /\ animFrameRef # 0 => croppers[animFrameRef].raw = rawDesktopStreamRef
    /\ rawDesktopStreamRef = 0 => canvasRef = <<>>

----------------------------------------------------------------------------
\* the rotation timer under interleaved calls

\* C37: at most one rotation timer is armed at any time and the armed one is
\* the one rotationTimerRef holds: no rotation interval is created while
\* another one runs, no running one loses its handle, and in one second at
\* most one rotation tick is due.
C37_OneRotationTimer ==
  /\ Cardinality(RotationTimers(intervals)) <= 1
  /\ \A i \in RotationTimers(intervals) : i.id = rotationTimerRef
  /\ Cardinality({d \in due : d[1] = "timer" /\
                    \E i \in RotationTimers(intervals) : i.id = d[2]}) <= 1

----------------------------------------------------------------------------
\* what a clip is made of

\* the recorders whose chunks the k-th payload holds
SessionsOf(k) == {ch[1] : ch \in Handed(k)}

\* C38: every payload handed to the file save holds chunks of exactly one
\* recorder session in the order they were delivered (no chunk twice, none
\* before an earlier one), and no chunk is in two payloads.
C38_ClipIsOneSession ==
  /\ \A k \in DOMAIN saveCalls :
       /\ Cardinality(SessionsOf(k)) = 1
       /\ \A i, j \in DOMAIN saveCalls[k].chunks :
            i < j => saveCalls[k].chunks[i][2] < saveCalls[k].chunks[j][2]
  /\ \A k1, k2 \in DOMAIN saveCalls : k1 # k2 => Handed(k1) \cap Handed(k2) = {}

----------------------------------------------------------------------------
\* save-recording when replacing the original by the remuxed file can fail

\* save-recording after FFmpeg, with the outcomes of unlinkSync(filePath) and
\* renameSync(tempPath, filePath) in the try block: a throw of either goes to
\* the catch, which removes the temporary file if it exists
saveRecordingReplaced(fs, k, outcome, unlinkOk, renameOk) ==
  IF outcome = "ok" /\ ~unlinkOk
  THEN fs \ {RecordingTemp(k, "faststart")}
  ELSE IF outcome = "ok" /\ ~renameOk
       THEN fs \ {RecordingFile(k, "raw"), RecordingTemp(k, "faststart")}
       ELSE saveRecordingRemuxed(fs, k, outcome)

\* the catch block of save-recording is entered with a temporary file to remove
saveRecordingCleansUp(outcome, unlinkOk, renameOk) ==
  \/ outcome = "failedWithOutput"
  \/ outcome = "ok" /\ ~(unlinkOk /\ renameOk)

\* FFmpeg settles for the save of call c and the handler runs to its end: it
\* returns filePath, or it rejects when the unlinkSync(tempPath) of its catch
\* block throws (the temporary file then stays)
SaveRecordingReplaced(c, outcome, unlinkOk, renameOk, cleanupOk) ==
  /\ c \in DOMAIN calls
  /\ calls[c].pc = "remux"
  /\ LET k == calls[c].clip IN
     IF saveRecordingCleansUp(outcome, unlinkOk, renameOk) /\ ~cleanupOk
     THEN Commit(saveChunksSettled(
                   [St EXCEPT !.files =
                      (IF outcome = "ok" /\ unlinkOk THEN @ \ {RecordingFile(k, "raw")} ELSE @)
                        \cup {RecordingTemp(k, IF outcome = "ok" THEN "faststart"
                                               ELSE "partial")}],
                   c, FALSE))
     ELSE Commit(saveChunksSettled(
                   [St EXCEPT !.files = saveRecordingReplaced(@, k, outcome, unlinkOk,
                                                              renameOk)],
                   c, TRUE))

\* one manual recording, started and stopped by hand and saved by the main
\* process
NextReplace ==
  \/ Quiet /\ nOps = 0 /\ \E srcId \in SourceIds : StartManualRecording(srcId)
  \/ Quiet /\ nOps = 1 /\ statusRef = "recording" /\ StopManualRecording
  \/ Quiet /\ \E c \in DOMAIN calls, ok \in BOOLEAN : AcquireDone(c, ok)
  \/ Quiet /\ \E c \in DOMAIN calls : BuildDone(c)
  \/ Quiet /\ \E r \in DOMAIN recorders : \E flush \in FlushChoices(r) : StopEvent(r, flush)
  \/ Quiet /\ \E c \in DOMAIN calls : SaveRecordingWritten(c)
  \/ Quiet /\ \E c \in DOMAIN calls, o \in FfmpegOutcomes, unlinkOk, renameOk, cleanupOk \in BOOLEAN :
       SaveRecordingReplaced(c, o, unlinkOk, renameOk, cleanupOk)
  \/ clock < MaxClock /\ PromptSecond
  \/ \E r \in DOMAIN recorders : DataAvailable(r)
  \/ \E t \in 1..nTimers : TimerFire(t)

SpecReplace == InitChoice /\ [][NextReplace]_vars

\* C39: whenever save-recording returns a path, a file exists at that path and
\* no '.tmp.mp4' file remains, whatever the outcomes of FFmpeg, of deleting
\* the original and of renaming the temporary file are.
C39_ReturnedPathHasFile ==
  [][\A c \in DOMAIN calls :
       (Returns(c, "remux") /\ onSaved' = Append(onSaved, calls[c].clip)) =>
         /\ \E content \in {"raw", "faststart"} :
              RecordingFile(calls[c].clip, content) \in files'
         /\ \A f \in files' : f.name # "recording.tmp"]_vars

----------------------------------------------------------------------------
\* The App component around the screen recorder: the background-buffering
\* setting, the auto-start effect and the record button

\* getPrimarySourceId() found no source
NoSource == 0

\* loadSettings: window.api.getSettings().then(settings =>
\* setBufferingEnabled(settings.bufferingEnabled) ...)
SettingsLoaded(enabled) ==
  Commit([St EXCEPT !.app.bufferingEnabled = enabled])

\* the effect on [bufferingEnabled, recorder.status]: it starts buffering once
\* when the setting is on and the recorder is idle, and stops the buffer when
\* the setting is off
autoStartEffect(s) ==
  IF s.app.bufferingEnabled /\ s.statusRef = "idle" /\ ~s.app.bufferAutoStartedRef
  THEN [s EXCEPT !.app.bufferAutoStartedRef = TRUE,
                 !.app.lookups = Append(@, "effect")]
  ELSE IF ~s.app.bufferingEnabled /\ s.statusRef = "buffering"
       THEN stopBuffering([s EXCEPT !.app.bufferAutoStartedRef = FALSE])
       ELSE s

\* the effect has something to do
AutoStartEffect ==
  /\ autoStartEffect(St) # St
  /\ Commit(autoStartEffect(St))

\* handleToggleRecording up to its await: the record button is clicked
handleToggleRecording(s) ==
  LET s0 == [s EXCEPT !.app.clicks = Append(@, s.statusRef)] IN
  IF s.statusRef = "recording"
  THEN stopManualRecording(s0)
  ELSE LET s1 == IF s.statusRef = "buffering"
                 THEN [stopBuffering(s0) EXCEPT !.app.bufferAutoStartedRef = FALSE]
                 ELSE s0
       IN [s1 EXCEPT !.app.lookups = Append(@, "toggle")]

HandleToggleRecording == Commit(handleToggleRecording(St))

\* getPrimarySourceId() resolves with srcId for the caller that has waited
\* longest: the effect calls startBuffering, the click handler
\* startManualRecording, and without a source the click handler shows a toast
getPrimarySourceIdResolved(s, srcId) ==
  LET s0 == [s EXCEPT !.app.lookups = Tail(@)] IN
  IF Head(s.app.lookups) = "effect"
  THEN IF srcId # NoSource THEN startBuffering(s0, srcId) ELSE s0
  ELSE IF srcId # NoSource
       THEN startManualRecording(s0, srcId)
       ELSE [s0 EXCEPT !.app.toasts = Append(@, "No screen source available for recording")]

LookupDone(srcId) ==
  /\ app.lookups # <<>>
  /\ Commit(getPrimarySourceIdResolved(St, srcId))

\* clicks on the record button in the scenario
ToggleClicks == 2
\* seconds simulated in the scenario
ToggleClock == 1

\* background buffering is enabled in the settings; the user clicks the record
\* button; every source lookup and every acquisition succeeds
NextToggle ==
  \/ ~app.bufferingEnabled /\ SettingsLoaded(TRUE)
  \/ Quiet /\ AutoStartEffect
  \/ Quiet /\ Len(app.clicks) < ToggleClicks /\ HandleToggleRecording
  \/ Quiet /\ \E srcId \in SourceIds : LookupDone(srcId)
  \/ Quiet /\ \E c \in DOMAIN calls : AcquireDone(c, TRUE)
  \/ Quiet /\ \E c \in DOMAIN calls : BuildDone(c)
  \/ Quiet /\ \E c \in DOMAIN calls, ok \in BOOLEAN : SaveDone(c, ok)
  \/ Quiet /\ \E r \in DOMAIN recorders : \E flush \in FlushChoices(r) : StopEvent(r, flush)
  \/ clock < ToggleClock /\ PromptSecond
  \/ \E r \in DOMAIN recorders : DataAvailable(r)
  \/ \E t \in 1..nTimers : TimerFire(t)

\* whatever is pending settles, effects run and lookups resolve
ToggleSettles ==
  /\ WF_vars(~app.bufferingEnabled /\ SettingsLoaded(TRUE))
  /\ WF_vars(Quiet /\ AutoStartEffect)
  /\ WF_vars(Quiet /\ \E srcId \in SourceIds : LookupDone(srcId))
  /\ WF_vars(Quiet /\ \E c \in DOMAIN calls : AcquireDone(c, TRUE))
  /\ WF_vars(Quiet /\ \E c \in DOMAIN calls : BuildDone(c))
  /\ WF_vars(Quiet /\ \E c \in DOMAIN calls, ok \in BOOLEAN : SaveDone(c, ok))
  /\ WF_vars(Quiet /\ \E r \in DOMAIN recorders :
                        \E flush \in FlushChoices(r) : StopEvent(r, flush))
  /\ WF_vars(\E r \in DOMAIN recorders : DataAvailable(r))
  /\ WF_vars(\E t \in 1..nTimers : TimerFire(t))

SpecToggle == Init /\ [][NextToggle]_vars /\ ToggleSettles

\* the last click on the record button found the recorder buffering
ToggledWhileBuffering ==
  /\ app.clicks # <<>>
  /\ app.clicks[Len(app.clicks)] = "buffering"
  /\ app.bufferingEnabled

\* the running screen recorders started by startManualRecording, and the others
ManualSessions ==
  {r \in DOMAIN recorders : /\ recorders[r].state = "recording"
                            /\ recorders[r].sink = "screen"
                            /\ calls[recorders[r].by].op = "startManualRecording"}
BufferSessions ==
  {r \in DOMAIN recorders : /\ recorders[r].state = "recording"
                            /\ recorders[r].sink = "screen"
                            /\ calls[recorders[r].by].op # "startManualRecording"}

\* C40, the click is not lost: when the source lookup of a click made in
\* Buffering resolves, startManualRecording passes its guard.
C40_ClickStartsManualRecording ==
  [][(ToggledWhileBuffering /\ app.lookups # <<>> /\ Head(app.lookups) = "toggle"
        /\ app'.lookups = Tail(app.lookups)) =>
       /\ Len(calls') = Len(calls) + 1
       /\ calls'[Len(calls')].op = "startManualRecording"]_vars

\* C40, never Buffering again: once the buffer stopped by the click has
\* reported Idle, the status does not become Buffering.
C40_NeverBufferingAgain ==
  [][(ToggledWhileBuffering /\ statusRef # "buffering" /\ ToggledWhileBuffering') =>
       statusRef' # "buffering"]_vars

\* C40, never two sessions: after the click no buffer session runs next to a
\* manual session.
C40_NoBufferNextToManual ==
  [](ToggledWhileBuffering => (BufferSessions = {} \/ ManualSessions = {}))

\* C40, Recording is reached: after the click the status becomes Recording
\* (unless the user clicks again first).
C40_ReachesRecording ==
  ToggledWhileBuffering ~> (statusRef = "recording" \/ ~ToggledWhileBuffering)

\* C40: a click on the record button while the recorder is Buffering and the
\* background-buffering setting is on leads to Recording; the status never
\* becomes Buffering again, no buffer session runs next to the manual session,
\* and the click is not lost.
C40_ToggleWhileBufferingRecords ==
  /\ C40_ReachesRecording
  /\ C40_NeverBufferingAgain
  /\ C40_NoBufferNextToManual
  /\ C40_ClickStartsManualRecording

====
